---- MODULE Spec2Model ----
(***************************************************************************)
(* Backup / restore orchestration of db-backup-ui:                         *)
(*   backend/app/celery/tasks/backup_tasks.py  create_backup_task,         *)
(*                                             restore_backup_task         *)
(*   backend/app/services/encryption.py        the byte transformations    *)
(*   backend/app/services/storage.py           the blob store              *)
(*   backend/app/models/backup.py              the Backup row              *)
(*                                                                         *)
(* A task execution is a coroutine body run by one worker.  Executions     *)
(* interleave at their suspension points (catalog commits, blob transfers, *)
(* remote calls), so each action below is the code between two of them.    *)
(*                                                                         *)
(* Specifications of the backup tasks, sharing the actions:                *)
(*   Spec          create_backup_task as written: the engine argument of   *)
(*                 line 89 is getattr(BackupType, db_type.upper());        *)
(*   SpecRestore   restore_backup_task over a catalog of completed rows;   *)
(*   SpecPipeline  the pipeline behind that line, entered with the engine  *)
(*                 BackupEngineFactory.create_engine returns for the       *)
(*                 DatabaseType member db_type names, each awaited call    *)
(*                 yielding its callee's result, the date held fixed.      *)
(*   SpecPool      Spec on a pool of MAX_CONCURRENT_BACKUPS workers that   *)
(*                 take further deliveries.                                *)
(*                                                                         *)
(* Periodic tasks (backend/app/celery/tasks/schedule_tasks.py):            *)
(*   SpecScheduler               check_scheduled_backups as written: the   *)
(*                               backups table checks the inserted row;    *)
(*   SpecSchedulerUnconstrained  the same tick on a table that may take    *)
(*                               the row;                                  *)
(*   SpecReaper                  cleanup_old_backups with the schedule's   *)
(*                               retention policy loaded;                  *)
(*   SpecReaperShared            the same over schedules that share one    *)
(*                               server and database.                      *)
(*                                                                         *)
(* Services:                                                               *)
(*   SpecHealth    check_server_health (schedule_tasks.py) over the        *)
(*                 Server rows;                                            *)
(*   SpecBus       ConnectionManager (services/websocket.py) under the     *)
(*                 endpoints of api/v1/websocket.py and their clients;     *)
(*   SpecBusFair   SpecBus with the event loop running a broadcast that    *)
(*                 can take a step;                                        *)
(*   SpecExecutor  execute of the three executors (services/executor.py)   *)
(*                 on one submitted command;                               *)
(*   SpecSession   one SSHExecutor over several calls of execute, with     *)
(*                 close and a session the peer ends;                      *)
(*   SpecEngine    the operations of the four engines                      *)
(*                 (services/backup_engines.py) over an executor.          *)
(***************************************************************************)
EXTENDS Integers, Sequences, FiniteSets, TLC

\* ---------------------------------------------------------------- bounds
\* task executions (workers' deliveries of create / restore jobs)
NumTasks == 2
\* Backup rows in the catalog
NumBackups == 1
\* distinct database contents an engine dump can capture
NumDumps == 1
\* calendar days the clock can advance over (the storage key holds the date)
MaxDay == 1

Tasks == 1..NumTasks
BackupIds == 1..NumBackups
Dumps == 1..NumDumps
Days == 0..MaxDay

\* ------------------------------------------------------------ enumerations
\* models/backup.py
DatabaseType == {"postgresql", "mysql", "mongodb", "redis"}
BackupType == {"full", "incremental", "differential"}
BackupStatus == {"pending", "in_progress", "completed", "failed", "deleted"}
CompressionType == {"none", "gzip", "lz4", "zstd"}

\* Optional values: None is the empty set, a value is a singleton
None == {}
Some(v) == {v}
The(s) == CHOOSE x \in s : TRUE

VARIABLES
    catalog,    \* Backup rows as committed: BackupIds -> row
    blob,       \* blob store: storage key -> optional bytes
    today,      \* the date datetime.utcnow() falls on
    task,       \* per task execution: position, arguments, locals, history
    schedules,  \* Schedule rows as committed: schedule id -> row
    now,        \* datetime.utcnow(), in minutes
    queue,      \* create_backup_task messages handed to the broker
    ticker,     \* the execution of check_scheduled_backups
    reaper,     \* the execution of cleanup_old_backups
    servers,    \* Server rows as committed: server id -> row
    prober,     \* the execution of check_server_health
    alerts,     \* per server: the health alerts sent, oldest first
    sockets,    \* WebSocket connections: the endpoint serving each, its peer
    active_connections, \* ConnectionManager: channel -> set of sockets
    user_connections,   \* ConnectionManager: user id -> set of sockets
    cast,       \* the broadcast in flight: position, iterator, locals
    submitted,  \* the command handed to an executor's execute
    executor,   \* the executor: its variant, client, position, result
    engine      \* the backup engine: its operation and the command awaited

vars == <<catalog, blob, today, task, schedules, now, queue, ticker, reaper,
          servers, prober, alerts,
          sockets, active_connections, user_connections, cast,
          submitted, executor, engine>>

\* the state of the backup and restore tasks (backup_tasks.py)
backups == <<catalog, blob, today, task>>

\* the state of the health prober (schedule_tasks.py check_server_health)
health == <<servers, prober, alerts>>

\* the state of the periodic tasks (schedule_tasks.py)
periodic == <<schedules, now, queue, ticker, reaper>>

\* the state of the WebSocket fan-out (services/websocket.py)
bus == <<sockets, active_connections, user_connections, cast>>

\* the state of the remote executors (services/executor.py)
remote == <<submitted, executor, engine>>

\* the state of the services outside the backup tasks, scheduler and reaper
services == <<health, bus, remote>>
beside_health == <<backups, periodic, bus, remote>>
beside_bus == <<backups, periodic, health, remote>>
beside_remote == <<backups, periodic, health, bus>>

\* ------------------------------------------------------------------ bytes
\* File contents: the dumped database content under the transformations
\* applied to it, outermost last; flipped marks bytes altered in storage.
RawBytes(d) == [data |-> d, layers |-> <<>>, flipped |-> FALSE]

\* CompressionService.compress_file: a codec frame around the input, or a copy
compress_file(b, ctype) ==
    IF ctype \in {"gzip", "lz4", "zstd"}
    THEN [b EXCEPT !.layers = Append(@, [kind |-> ctype, nonce |-> 0])]
    ELSE b

\* The codec can read its own intact frame and nothing else
CanDecompress(b, ctype) ==
    \/ ctype \notin {"gzip", "lz4", "zstd"}
    \/ /\ Len(b.layers) > 0
       /\ b.layers[Len(b.layers)].kind = ctype

\* CompressionService.decompress_file on readable input
decompress_file(b, ctype) ==
    IF ctype \in {"gzip", "lz4", "zstd"}
    THEN [b EXCEPT !.layers = SubSeq(@, 1, Len(@) - 1)]
    ELSE b

\* EncryptionService.encrypt_file: nonce || AES-256-GCM(plaintext)
encrypt_file(b, nonce) ==
    [b EXCEPT !.layers = Append(@, [kind |-> "aesgcm", nonce |-> nonce])]

\* AESGCM.decrypt authenticates: only an intact nonce || ciphertext opens
CanDecrypt(b) ==
    /\ ~b.flipped
    /\ Len(b.layers) > 0
    /\ b.layers[Len(b.layers)].kind = "aesgcm"

\* EncryptionService.decrypt_file on input that authenticates
decrypt_file(b) == [b EXCEPT !.layers = SubSeq(@, 1, Len(@) - 1)]

\* ChecksumService.calculate_checksum: the SHA-256 hex digest, a value that
\* identifies the bytes hashed
calculate_checksum(b) == [sha256_of |-> b]

\* f"sha256:{checksum}" and backup.checksum.split(':')[1]
ChecksumField(hex) == [algo |-> "sha256", hex |-> hex]
ExpectedChecksum(field) == field.hex

\* verify_checksum reporting every file as valid
verify_checksum_always(b, expected) == TRUE

\* ChecksumService.verify_checksum
verify_checksum(b, expected) == calculate_checksum(b) = expected

\* os.path.getsize
getsize(b) == Len(b.layers) + b.data

\* f"backups/{timestamp}/backup_{backup_id}.dat"
StorageKey(day, id) == [day |-> day, id |-> id]
StorageKeys == {StorageKey(d, i) : d \in Days, i \in BackupIds}

\* ------------------------------------------------------------ catalog rows
\* models/backup.py Backup: a row as admitted, before any task ran on it
PendingRow(db_type) ==
    [ status           |-> "pending",
      db_type          |-> db_type,
      started_at       |-> FALSE,
      completed_at     |-> FALSE,
      storage_path     |-> None,
      size_bytes       |-> None,
      checksum         |-> None,
      is_compressed    |-> TRUE,
      compression_type |-> "gzip",
      is_encrypted     |-> TRUE,
      error_message    |-> None ]

\* An exception and str(e): a fixed text and the text interpolated into it
Exc(text, detail) == [text |-> text, detail |-> detail]

\* stderr an engine's dump or restore command can die with
EngineStderr == {"connection refused"}

\* ------------------------------------------------------------------ tasks
IdleTask ==
    [ pc       |-> "idle",
      kind     |-> "none",
      bid      |-> None,
      compress |-> FALSE,
      codec    |-> "gzip",
      encrypt  |-> FALSE,
      engine   |-> None,
      result   |-> None,
      file     |-> None,
      size     |-> None,
      sum      |-> None,
      key      |-> None,
      exc      |-> None,
      uploads  |-> 0,
      backup   |-> None,
      got      |-> None,
      checked  |-> None,
      log      |-> {} ]

\* no schedule defined, no periodic task under way
IdleTicker ==
    [ pc     |-> "idle",
      now    |-> 0,
      todo   |-> <<>>,
      txn    |-> None,
      failed |-> None,
      seen   |-> <<>>,
      before |-> {} ]

IdleReaper ==
    [ pc       |-> "idle",
      todo     |-> <<>>,
      schedule |-> None,
      listed   |-> <<>>,
      keep     |-> {},
      marked   |-> FALSE,
      ran      |-> FALSE ]

PeriodicIdle ==
    /\ schedules = <<>>
    /\ now = 0
    /\ queue = {}
    /\ ticker = IdleTicker
    /\ reaper = IdleReaper

\* no server registered, no probe under way
IdleProber ==
    [ pc     |-> "idle",
      ticks  |-> 0,
      todo   |-> <<>>,
      status |-> <<>>,
      probed |-> <<>>,
      threw  |-> {},
      failed |-> FALSE ]

HealthIdle ==
    /\ servers = <<>>
    /\ prober = IdleProber
    /\ alerts = <<>>

\* WebSocket connections
NumSockets == 2
\* user ids
NumUsers == 1

Sockets == 1..NumSockets
Users == 1..NumUsers

\* services/websocket.py ConnectionManager.__init__
Channels == {"all", "backups", "servers", "logs"}

\* a connection no endpoint has been called for yet
NewSocket == [ endpoint |-> "none", peer |-> "reading" ]

\* no broadcast has been called yet; cast keeps the locals of the last call
IdleCast ==
    [ pc           |-> "idle",
      kind         |-> "channel",
      key          |-> "all",
      start        |-> {},
      visited      |-> {},
      connection   |-> None,
      delivered    |-> {},
      disconnected |-> {} ]

BusIdle ==
    /\ sockets = [s \in Sockets |-> NewSocket]
    /\ active_connections = [c \in Channels |-> {}]
    /\ user_connections = <<>>
    /\ cast = IdleCast

\* an executor as constructed, execute not yet called
IdleExecutor ==
    [ variant |-> "ssh",
      pc      |-> "idle",
      client  |-> "none",
      result  |-> None,
      calls   |-> <<>>,
      executes |-> 0 ]

\* services/backup_engines.py BackupEngine: no operation called yet
IdleEngine ==
    [ pc          |-> "idle",
      family      |-> "postgresql",
      operation   |-> "create_backup",
      kind        |-> "full",
      credentials |-> [username |-> <<>>, password |-> <<>>],
      step        |-> "return" ]

RemoteIdle ==
    /\ submitted = <<>>
    /\ executor = IdleExecutor
    /\ engine = IdleEngine

ServicesIdle == HealthIdle /\ BusIdle /\ RemoteIdle

\* families of the databases the catalog's rows were admitted for
CatalogFamilies == {"postgresql", "redis"}

Init ==
    /\ catalog \in [BackupIds -> {PendingRow(f) : f \in CatalogFamilies}]
    /\ blob = [k \in StorageKeys |-> None]
    /\ today = 0
    /\ task = [t \in Tasks |-> IdleTask]
    /\ PeriodicIdle
    /\ ServicesIdle

Row(t) == catalog[The(task[t].bid)]

\* A local step of task t: its new locals, everything shared unchanged
Local(t, new) ==
    /\ task' = [task EXCEPT ![t] = new]
    /\ UNCHANGED <<catalog, blob, today>>
    /\ UNCHANGED periodic
    /\ UNCHANGED services

\* What remains of a task execution once it has ended
Ended(tk, pc) ==
    [IdleTask EXCEPT !.pc = pc, !.kind = tk.kind, !.bid = tk.bid,
                     !.exc = tk.exc, !.uploads = tk.uploads, !.log = tk.log]

\* raise inside the try block: control moves to the except clause
Raise(t, e, step) ==
    Local(t, [task[t] EXCEPT !.pc = "except", !.exc = Some(e),
                             !.log = @ \cup {step}])

\* ------------------------------------------------------ create_backup_task
\* lines 65-69: select the row, set IN_PROGRESS and started_at, commit.
\* compression_type is read only when compress is set.
\* compression_type arguments the callers pass
CodecArgs == {"gzip", "none"}

InProgressRow(row) ==
    [row EXCEPT !.status = "in_progress", !.started_at = TRUE]

Start(t) ==
    /\ task[t].pc = "idle"
    /\ \E b \in DOMAIN catalog, compress \in BOOLEAN, encrypt \in BOOLEAN,
          codec \in CodecArgs :
        /\ ~compress => codec = "gzip"
        /\ catalog' = [catalog EXCEPT ![b] = InProgressRow(@)]
        /\ task' = [task EXCEPT ![t] =
                      [IdleTask EXCEPT !.pc = "prepare", !.kind = "create",
                                       !.bid = Some(b), !.compress = compress,
                                       !.codec = codec, !.encrypt = encrypt]]
    /\ UNCHANGED <<blob, today>>
    /\ UNCHANGED periodic
    /\ UNCHANGED services

\* BackupEngineFactory.create_engine: an engine per DatabaseType member,
\* ValueError for anything else
create_engine(db_type) ==
    IF db_type \in DatabaseType THEN db_type ELSE "ValueError"

\* getattr(BackupType, db_type.upper()): the member of BackupType of that
\* name, AttributeError when BackupType has none
BackupTypeMember(name) ==
    IF name \in BackupType THEN name ELSE "AttributeError"

\* lines 71-93: server row, executor (its constructor validates host and
\* port and raises ValueError), credentials, engine for engine_arg
PrepareWith(t, db_type, engine_arg) ==
    /\ task[t].pc = "prepare"
    /\ \E valid \in BOOLEAN :
        IF ~valid
        THEN Raise(t, Exc("Invalid SSH parameters", ""), "executor")
        ELSE IF engine_arg = "AttributeError"
        THEN Raise(t, Exc("AttributeError", db_type), "executor")
        ELSE IF create_engine(engine_arg) = "ValueError"
        THEN Raise(t, Exc("Unsupported database type", engine_arg), "executor")
        ELSE Local(t, [task[t] EXCEPT !.pc = "dump",
                                      !.engine = Some(create_engine(engine_arg)),
                                      !.log = @ \cup {"executor", "engine"}])

\* line 89 as written: the name is looked up in BackupType
Prepare(t) ==
    \E db_type \in DatabaseType :
        PrepareWith(t, db_type, BackupTypeMember(db_type))

\* the engine of the DatabaseType member db_type names
PrepareForFamily(t) ==
    \E db_type \in DatabaseType : PrepareWith(t, db_type, db_type)

\* backup_engines.py create_backup: the kinds each dialect accepts
Supports(family, kind) ==
    CASE family = "postgresql" -> kind \in {"full", "incremental"}
      [] family = "mysql"      -> kind = "full"
      [] OTHER                 -> TRUE

UnsupportedStderr(family) ==
    IF family = "postgresql" THEN "Unsupported backup type for PostgreSQL"
    ELSE "Only full backups supported for MySQL"

\* the stage after the dump, after compression, after encryption
AfterDump(tk) ==
    IF tk.compress THEN "compress" ELSE IF tk.encrypt THEN "encrypt" ELSE "upload"
AfterCompress(tk) == IF tk.encrypt THEN "encrypt" ELSE "upload"

\* executor.py ExecutionResult
ExecutionResult(success, stderr) == [success |-> success, stderr |-> stderr]

\* the exception of line 107 without the interpolated stderr
BackupFailedNoStderr(result) == Exc("Backup failed", "")

\* line 107: the exception raised for a failed ExecutionResult
BackupFailed(result) == Exc("Backup failed", result.stderr)

\* engine.create_backup: a failed result for a kind the dialect does not
\* accept, else the result of the dump command
create_backup(family, kind, stderr) ==
    IF ~Supports(family, kind)
    THEN ExecutionResult(FALSE, UnsupportedStderr(family))
    ELSE ExecutionResult(stderr = "", stderr)

\* lines 95-111: temp file, engine.create_backup, result check, file size
Dump(t) ==
    /\ task[t].pc = "dump"
    /\ \E kind \in BackupType, d \in Dumps, stderr \in EngineStderr \cup {""} :
        LET result == create_backup(The(task[t].engine), kind, stderr) IN
        IF ~result.success
        THEN Local(t, [task[t] EXCEPT !.pc = "except",
                                      !.result = Some(result),
                                      !.exc = Some(BackupFailed(result)),
                                      !.log = @ \cup {"create_backup"}])
        ELSE Local(t, [task[t] EXCEPT !.pc = AfterDump(task[t]),
                                      !.result = Some(result),
                                      !.file = Some(RawBytes(d)),
                                      !.size = Some(getsize(RawBytes(d))),
                                      !.log = @ \cup {"create_backup"}])

\* lines 113-130
Compress(t) ==
    /\ task[t].pc = "compress"
    /\ \E success \in BOOLEAN :
        IF ~success
        THEN Raise(t, Exc("Compression failed", ""), "compress")
        ELSE LET out == compress_file(The(task[t].file), task[t].codec) IN
             Local(t, [task[t] EXCEPT !.pc = AfterCompress(task[t]),
                                      !.file = Some(out),
                                      !.size = Some(getsize(out)),
                                      !.log = @ \cup {"compress"}])

\* os.urandom(12): a nonce no other execution draws
Nonce(t) == t

\* lines 132-148
Encrypt(t) ==
    /\ task[t].pc = "encrypt"
    /\ \E success \in BOOLEAN :
        IF ~success
        THEN Raise(t, Exc("Encryption failed", ""), "encrypt")
        ELSE LET out == encrypt_file(The(task[t].file), Nonce(t)) IN
             Local(t, [task[t] EXCEPT !.pc = "upload",
                                      !.file = Some(out),
                                      !.size = Some(getsize(out)),
                                      !.log = @ \cup {"encrypt"}])

\* lines 150-163: checksum of the final temp file, storage key, one call of
\* storage.upload, its result checked
Upload(t) ==
    /\ task[t].pc = "upload"
    /\ \E success \in BOOLEAN :
        LET b   == The(task[t].file)
            key == StorageKey(today, The(task[t].bid))
            tk  == [task[t] EXCEPT !.sum = Some(calculate_checksum(b)),
                                   !.key = Some(key),
                                   !.uploads = @ + 1,
                                   !.log = @ \cup {"checksum", "upload"}]
        IN  IF success
            THEN /\ blob' = [blob EXCEPT ![key] = Some(b)]
                 /\ task' = [task EXCEPT ![t] = [tk EXCEPT !.pc = "commit"]]
                 /\ UNCHANGED <<catalog, today>>
                 /\ UNCHANGED periodic
                 /\ UNCHANGED services
            ELSE /\ task' = [task EXCEPT ![t] =
                        [tk EXCEPT !.pc = "except",
                                   !.exc = Some(Exc("Upload to storage failed", ""))]]
                 /\ UNCHANGED <<catalog, blob, today>>
                 /\ UNCHANGED periodic
                 /\ UNCHANGED services

\* the success path forgetting the checksum assignment of line 171
CompletedRowNoChecksum(row, tk) ==
    [row EXCEPT !.status = "completed",
                !.completed_at = TRUE,
                !.size_bytes = tk.size,
                !.storage_path = tk.key,
                !.is_compressed = tk.compress,
                !.compression_type = IF tk.compress THEN tk.codec ELSE "none",
                !.is_encrypted = tk.encrypt]

\* lines 166-174: the attributes the success path assigns
CompletedRow(row, tk) ==
    [row EXCEPT !.status = "completed",
                !.completed_at = TRUE,
                !.size_bytes = tk.size,
                !.storage_path = tk.key,
                !.checksum = Some(ChecksumField(The(tk.sum))),
                !.is_compressed = tk.compress,
                !.compression_type = IF tk.compress THEN tk.codec ELSE "none",
                !.is_encrypted = tk.encrypt]

\* lines 165-191: assign, add the audit record, commit
Commit(t) ==
    /\ task[t].pc = "commit"
    /\ catalog' = [catalog EXCEPT ![The(task[t].bid)] = CompletedRow(@, task[t])]
    /\ task' = [task EXCEPT ![t].pc = "finish", ![t].log = @ \cup {"commit"}]
    /\ UNCHANGED <<blob, today>>
    /\ UNCHANGED periodic
    /\ UNCHANGED services

\* lines 193-204: success notification, temp file removal (os.remove can
\* raise OSError), still inside the try block
Finish(t) ==
    /\ task[t].pc = "finish"
    /\ \E removed \in BOOLEAN :
        IF removed
        THEN Local(t, Ended([task[t] EXCEPT !.log = @ \cup {"backup_success"}],
                            "done"))
        ELSE Raise(t, Exc("OSError", ""), "backup_success")

\* lines 210-214: the attributes the except clause assigns
FailedRow(row, e) ==
    [row EXCEPT !.status = "failed",
                !.completed_at = TRUE,
                !.error_message = Some(e)]

\* lines 206-224: mark failed, commit, failure notification, re-raise
HandleFailure(t) ==
    /\ task[t].pc = "except"
    /\ task[t].kind = "create"
    /\ catalog' = [catalog EXCEPT ![The(task[t].bid)] =
                       FailedRow(@, The(task[t].exc))]
    /\ task' = [task EXCEPT ![t] =
                  Ended([@ EXCEPT !.log = @ \cup {"backup_failure"}], "raised")]
    /\ UNCHANGED <<blob, today>>
    /\ UNCHANGED periodic
    /\ UNCHANGED services

\* ----------------------------------------------------- restore_backup_task
\* lines 248-253: select the Backup row and the target server row
RestoreLoad(t) ==
    /\ task[t].pc = "idle"
    /\ \E b \in BackupIds :
        Local(t, [IdleTask EXCEPT !.pc = "r_download", !.kind = "restore",
                                  !.bid = Some(b), !.backup = Some(catalog[b])])

\* the stage after the download, after decryption
AfterDownload(row) ==
    IF row.is_encrypted THEN "r_decrypt"
    ELSE IF row.is_compressed THEN "r_decompress" ELSE "r_verify"
AfterDecrypt(row) == IF row.is_compressed THEN "r_decompress" ELSE "r_verify"

\* storage.download: False when the key holds nothing or the transfer fails
Downloadable(path) == path # None /\ blob[The(path)] # None

\* lines 255-263
RestoreDownload(t) ==
    /\ task[t].pc = "r_download"
    /\ \E transferred \in BOOLEAN :
        LET row == The(task[t].backup) IN
        IF transferred /\ Downloadable(row.storage_path)
        THEN Local(t, [task[t] EXCEPT !.pc = AfterDownload(row),
                                      !.file = blob[The(row.storage_path)],
                                      !.got = blob[The(row.storage_path)],
                                      !.log = @ \cup {"download"}])
        ELSE Raise(t, Exc("Failed to download backup from storage", ""),
                   "download")

\* lines 265-279
RestoreDecrypt(t) ==
    /\ task[t].pc = "r_decrypt"
    /\ LET row == The(task[t].backup)
           b   == The(task[t].file)
       IN  IF CanDecrypt(b)
           THEN Local(t, [task[t] EXCEPT !.pc = AfterDecrypt(row),
                                         !.file = Some(decrypt_file(b)),
                                         !.log = @ \cup {"decrypt"}])
           ELSE Raise(t, Exc("Decryption failed", ""), "decrypt")

\* lines 281-296; a codec reading altered bytes may reject them or yield
\* altered output
RestoreDecompress(t) ==
    /\ task[t].pc = "r_decompress"
    /\ \E detected \in BOOLEAN :
        LET row == The(task[t].backup)
            b   == The(task[t].file)
        IN  IF CanDecompress(b, row.compression_type) /\ ~(b.flipped /\ detected)
            THEN Local(t, [task[t] EXCEPT
                             !.pc = "r_verify",
                             !.file = Some(decompress_file(b, row.compression_type)),
                             !.log = @ \cup {"decompress"}])
            ELSE Raise(t, Exc("Decompression failed", ""), "decompress")

\* lines 298-302: verification runs when the row stores a checksum
RestoreVerify(t) ==
    /\ task[t].pc = "r_verify"
    /\ LET row == The(task[t].backup)
           b   == The(task[t].file)
       IN  IF row.checksum = None
           THEN Local(t, [task[t] EXCEPT !.pc = "r_execute"])
           ELSE IF verify_checksum(b, ExpectedChecksum(The(row.checksum)))
           THEN Local(t, [task[t] EXCEPT !.pc = "r_execute",
                                         !.checked = Some(b),
                                         !.log = @ \cup {"verify"}])
           ELSE Raise(t, Exc("Checksum verification failed", ""), "verify")

\* line 329: the exception raised for a failed ExecutionResult
RestoreFailed(result) == Exc("Restore failed", result.stderr)

\* lines 304-329: executor for the target server, engine for the row's
\* family, engine.restore_backup on the temp file, result check
RestoreExecute(t) ==
    /\ task[t].pc = "r_execute"
    /\ \E valid \in BOOLEAN, stderr \in EngineStderr \cup {""} :
        LET row == The(task[t].backup) IN
        IF ~valid
        THEN Raise(t, Exc("Invalid SSH parameters", ""), "executor")
        ELSE IF create_engine(row.db_type) = "ValueError"
        THEN Raise(t, Exc("Unsupported database type", row.db_type), "executor")
        ELSE IF stderr # ""
        THEN Local(t, [task[t] EXCEPT
                         !.pc = "except", !.exc = Some(RestoreFailed(ExecutionResult(FALSE, stderr))),
                         !.log = @ \cup {"executor", "restore_backup"}])
        ELSE Local(t, [task[t] EXCEPT
                         !.pc = "r_finish",
                         !.log = @ \cup {"executor", "restore_backup"}])

\* lines 331-357: audit record, commit, success notification, cleanup
RestoreFinish(t) ==
    /\ task[t].pc = "r_finish"
    /\ Local(t, Ended([task[t] EXCEPT !.log = @ \cup {"restore_success"}],
                      "done"))

\* lines 359-369: failure notification, re-raise; the catalog is not written
RestoreFail(t) ==
    /\ task[t].pc = "except"
    /\ task[t].kind = "restore"
    /\ Local(t, Ended([task[t] EXCEPT !.log = @ \cup {"restore_failure"}],
                      "raised"))

\* ------------------------------------------------------------ environment
\* one byte of a stored blob is altered outside the program
Tamper(k) ==
    /\ blob[k] # None
    /\ ~The(blob[k]).flipped
    /\ blob' = [blob EXCEPT ![k] = Some([The(@) EXCEPT !.flipped = TRUE])]
    /\ UNCHANGED <<catalog, today, task>>
    /\ UNCHANGED periodic
    /\ UNCHANGED services

\* celery_app.py task_time_limit: the worker process running a task past
\* the hard limit is killed; BackupTask.on_failure only logs
Running(t) == task[t].pc \notin {"idle", "done", "raised", "killed"}

TimeLimit(t) ==
    /\ Running(t)
    /\ Local(t, Ended(task[t], "killed"))

\* datetime.utcnow() passes midnight
Midnight ==
    /\ today < MaxDay
    /\ today' = today + 1
    /\ UNCHANGED <<catalog, blob, task>>
    /\ UNCHANGED periodic
    /\ UNCHANGED services

NextPipeline ==
    \/ \E t \in Tasks :
        \/ Start(t)
        \/ PrepareForFamily(t)
        \/ Dump(t)
        \/ Compress(t)
        \/ Encrypt(t)
        \/ Upload(t)
        \/ Commit(t)
        \/ Finish(t)
        \/ HandleFailure(t)
        \/ RestoreLoad(t)
        \/ RestoreDownload(t)
        \/ RestoreDecrypt(t)
        \/ RestoreDecompress(t)
        \/ RestoreVerify(t)
        \/ RestoreExecute(t)
        \/ RestoreFinish(t)
        \/ RestoreFail(t)
        \/ TimeLimit(t)
    \/ \E k \in StorageKeys : Tamper(k)

SpecPipeline == Init /\ [][NextPipeline]_vars

\* the catalog after completed runs of create_backup_task: each row as
\* the scheduler inserted it (schedule_tasks.py lines 40-47: the schedule's
\* server, database and backup_type, no parent_backup_id) and as lines
\* 166-174 completed it, its bytes in the blob store
StoredFile(d, compress, encrypt) ==
    LET dumped     == RawBytes(d)
        compressed == IF compress THEN compress_file(dumped, "gzip") ELSE dumped
    IN  IF encrypt THEN encrypt_file(compressed, 1) ELSE compressed

CompletedBackup(id, kind, d, compress, encrypt) ==
    LET file == StoredFile(d, compress, encrypt) IN
    CompletedRow(PendingRow("postgresql"),
                 [ size     |-> Some(getsize(file)),
                   key      |-> Some(StorageKey(0, id)),
                   sum      |-> Some(calculate_checksum(file)),
                   compress |-> compress,
                   codec    |-> "gzip",
                   encrypt  |-> encrypt ]) @@
    [ server_id        |-> 1,
      database_name    |-> "appdb",
      backup_type      |-> kind,
      parent_backup_id |-> None ]

InitRestore ==
    /\ \E kind \in [BackupIds -> BackupType], d \in [BackupIds -> Dumps],
          compress \in [BackupIds -> BOOLEAN], encrypt \in [BackupIds -> BOOLEAN] :
        /\ catalog = [b \in BackupIds |->
               CompletedBackup(b, kind[b], d[b], compress[b], encrypt[b])]
        /\ blob = [k \in StorageKeys |->
               IF k.day = 0
               THEN Some(StoredFile(d[k.id], compress[k.id], encrypt[k.id]))
               ELSE None]
    /\ today = 0
    /\ task = [t \in Tasks |-> IdleTask]
    /\ PeriodicIdle
    /\ ServicesIdle

NextRestore ==
    \E t \in Tasks :
        \/ RestoreLoad(t)
        \/ RestoreDownload(t)
        \/ RestoreDecrypt(t)
        \/ RestoreDecompress(t)
        \/ RestoreVerify(t)
        \/ RestoreExecute(t)
        \/ RestoreFinish(t)
        \/ RestoreFail(t)

SpecRestore == InitRestore /\ [][NextRestore]_vars

Next ==
    \/ \E t \in Tasks :
        \/ Start(t)
        \/ Prepare(t)
        \/ HandleFailure(t)
        \/ TimeLimit(t)
    \/ Midnight

Spec == Init /\ [][Next]_vars

\* ------------------------------------------------------------- worker pool
\* config.py MAX_CONCURRENT_BACKUPS as configured here (5 unless configured):
\* the number of task executions the pool has under way at once
MAX_CONCURRENT_BACKUPS == 1

\* the pool's worker slots
PoolWorkers == 1..MAX_CONCURRENT_BACKUPS

\* rows admitted to the catalog: one more than the pool has slots
PoolBackupIds == 1..(MAX_CONCURRENT_BACKUPS + 1)

InitPool ==
    /\ catalog \in [PoolBackupIds -> {PendingRow(f) : f \in CatalogFamilies}]
    /\ blob = [k \in StorageKeys |-> None]
    /\ today = 0
    /\ task = [t \in Tasks |-> IdleTask]
    /\ PeriodicIdle
    /\ ServicesIdle

\* the worker whose task has ended (or was killed and replaced) takes the
\* next delivery from the queue
NextDelivery(t) ==
    /\ task[t].pc \in {"done", "raised", "killed"}
    /\ Local(t, IdleTask)

NextPool ==
    \E t \in PoolWorkers :
        \/ Start(t)
        \/ Prepare(t)
        \/ HandleFailure(t)
        \/ TimeLimit(t)
        \/ NextDelivery(t)

SpecPool == InitPool /\ [][NextPool]_vars

\* --------------------------------------------------------------- scheduler
\* schedule_tasks.py check_scheduled_backups, run by celery beat every minute
\* Schedule rows
NumSchedules == 2
\* minutes the clock can advance over
MaxNow == 3

ScheduleIds == 1..NumSchedules
Times == 0..MaxNow

\* Schedule.cron_expression: every minute, every second minute
CronExpressions == {"* * * * *", "*/2 * * * *"}

\* minutes between two firings of the expression; it fires on the multiples
Period(expr) == IF expr = "* * * * *" THEN 1 ELSE 2

\* croniter(expr, t).get_next(datetime): the first firing after t
get_next(expr, t) == ((t \div Period(expr)) + 1) * Period(expr)

\* models/schedule.py Schedule; schedule id targets the database "appdb" of
\* the server of the same number
ScheduleRow(id, enabled, expr, last_run, next_run, policy) ==
    [ server_id        |-> id,
      database_name    |-> "appdb",
      backup_type      |-> "full",
      cron_expression  |-> expr,
      enabled          |-> enabled,
      last_run         |-> last_run,
      next_run         |-> next_run,
      retention_policy |-> policy ]

InitScheduler ==
    /\ catalog = <<>>
    /\ blob = [k \in StorageKeys |-> None]
    /\ today = 0
    /\ task = [t \in Tasks |-> IdleTask]
    /\ schedules \in [ScheduleIds -> UNION {
           { ScheduleRow(id, enabled, expr, last_run, next_run, None) :
               enabled \in BOOLEAN, expr \in CronExpressions,
               last_run \in {None, Some(0)},
               next_run \in {None} \cup {Some(n) : n \in 0..1} } :
           id \in ScheduleIds }]
    /\ \A id \in ScheduleIds : schedules[id].server_id = id
    /\ now = 0
    /\ queue = {}
    /\ ticker = IdleTicker
    /\ reaper = IdleReaper
    /\ ServicesIdle

\* lines 40-46: Backup(server_id, database_name, db_type = database_name,
\* backup_type, status = PENDING); the other columns take their defaults
ScheduledBackup(schedule, created) ==
    PendingRow(schedule.database_name) @@
    [ server_id     |-> schedule.server_id,
      database_name |-> schedule.database_name,
      backup_type   |-> schedule.backup_type,
      created_at    |-> created,
      deleted_at    |-> None ]

\* the backups table (created by Base.metadata.create_all): storage_path is
\* NOT NULL without a default, db_type is an enum column of DatabaseType
Insertable(row) ==
    /\ row.storage_path # None
    /\ row.db_type \in DatabaseType

\* the primary key the INSERT is given
NextId(cat) == Cardinality(DOMAIN cat) + 1

\* rows of an uncommitted INSERT becoming visible to other transactions
VisibleAfterFlushAutocommit(cat, id, row) == cat @@ (id :> row)

\* db.flush(): the INSERT is sent inside the session's transaction; the
\* committed table does not show its row
VisibleAfterFlush(cat, id, row) == cat

\* the orders a SELECT without ORDER BY can return the rows of ids in
Orderings(ids) ==
    { q \in [1..Cardinality(ids) -> ids] :
        \A i, j \in 1..Cardinality(ids) : q[i] = q[j] => i = j }

\* lines 24-32: select the enabled schedules, read the clock
TickBegin ==
    /\ ticker.pc \in {"idle", "done"}
    /\ \E todo \in Orderings({s \in DOMAIN schedules : schedules[s].enabled}) :
        ticker' = [IdleTicker EXCEPT !.pc = "loop", !.now = now, !.todo = todo,
                                     !.seen = schedules,
                                     !.before = DOMAIN catalog]
    /\ UNCHANGED <<catalog, blob, today, task, schedules, now, queue, reaper>>
    /\ UNCHANGED services

\* line 36 on the schedule object as loaded
Due(schedule, t) == schedule.next_run # None /\ The(schedule.next_run) <= t

\* the row lines 40-46 build for the schedule at the head of the loop
DueRow == ScheduledBackup(ticker.seen[Head(ticker.todo)], now)

\* lines 34-48: the next schedule of the loop; a due one gets its Backup
\* added and flushed, accepted tells whether the INSERT goes through
TickScheduleWith(accepted) ==
    /\ ticker.pc = "loop"
    /\ ticker.todo # <<>>
    /\ IF ~Due(ticker.seen[Head(ticker.todo)], ticker.now)
       THEN /\ ticker' = [ticker EXCEPT !.todo = Tail(@)]
            /\ UNCHANGED catalog
       ELSE IF accepted
       THEN /\ ticker' = [ticker EXCEPT
                            !.pc = "enqueue",
                            !.txn = Some([id |-> NextId(catalog), row |-> DueRow])]
            /\ catalog' = VisibleAfterFlush(catalog, NextId(catalog), DueRow)
       ELSE /\ ticker' = [ticker EXCEPT !.pc = "except",
                                        !.failed = Some(Head(ticker.todo))]
            /\ UNCHANGED catalog
    /\ UNCHANGED <<blob, today, task, schedules, now, queue, reaper>>
    /\ UNCHANGED services

\* as written: the database checks the row against the table's constraints
TickSchedule == TickScheduleWith(Insertable(DueRow))

\* a backups table that may take the row or refuse it
TickScheduleUnconstrained == \E accepted \in BOOLEAN : TickScheduleWith(accepted)

\* lines 50-64: create_backup_task.delay(...), then last_run and next_run
\* are assigned on the schedule object
TickEnqueue ==
    /\ ticker.pc = "enqueue"
    /\ queue' = queue \cup {[backup_id |-> The(ticker.txn).id,
                            db_type   |-> "postgresql",
                            compress  |-> TRUE,
                            encrypt   |-> TRUE]}
    /\ ticker' = [ticker EXCEPT !.pc = "commit"]
    /\ UNCHANGED <<catalog, blob, today, task, schedules, now, reaper>>
    /\ UNCHANGED services

\* lines 62-64 as the UPDATE the commit sends
Advanced(schedule, t) ==
    [schedule EXCEPT !.last_run = Some(t),
                     !.next_run = Some(get_next(schedule.cron_expression, t))]

\* line 66: db.commit() makes the inserted row and the schedule's update
\* durable together, or raises
TickCommit ==
    /\ ticker.pc = "commit"
    /\ \E committed \in BOOLEAN :
        LET s   == Head(ticker.todo)
            txn == The(ticker.txn)
        IN  IF committed
            THEN /\ catalog' = (txn.id :> txn.row) @@ catalog
                 /\ schedules' = [schedules EXCEPT ![s] = Advanced(@, ticker.now)]
                 /\ ticker' = [ticker EXCEPT !.pc = "loop", !.todo = Tail(@),
                                             !.txn = None]
            ELSE /\ ticker' = [ticker EXCEPT !.pc = "except", !.failed = Some(s)]
                 /\ UNCHANGED <<catalog, schedules>>
    /\ UNCHANGED <<blob, today, task, now, queue, reaper>>
    /\ UNCHANGED services

\* lines 68-69: the except clause around the whole loop logs the error; the
\* session is closed, which rolls back what was not committed
TickExcept ==
    /\ ticker.pc = "except"
    /\ ticker' = [ticker EXCEPT !.pc = "done", !.txn = None]
    /\ UNCHANGED <<catalog, blob, today, task, schedules, now, queue, reaper>>
    /\ UNCHANGED services

\* the loop has gone through every schedule it selected
TickEnd ==
    /\ ticker.pc = "loop"
    /\ ticker.todo = <<>>
    /\ ticker' = [ticker EXCEPT !.pc = "done"]
    /\ UNCHANGED <<catalog, blob, today, task, schedules, now, queue, reaper>>
    /\ UNCHANGED services

\* a minute passes
Pass ==
    /\ now < MaxNow
    /\ now' = now + 1
    /\ UNCHANGED <<catalog, blob, today, task, schedules, queue, ticker, reaper>>
    /\ UNCHANGED services

NextScheduler ==
    \/ TickBegin
    \/ TickSchedule
    \/ TickExcept
    \/ TickEnd
    \/ Pass

SpecScheduler == InitScheduler /\ [][NextScheduler]_vars

NextSchedulerUnconstrained ==
    \/ TickBegin
    \/ TickScheduleUnconstrained
    \/ TickEnqueue
    \/ TickCommit
    \/ TickExcept
    \/ TickEnd
    \/ Pass

SpecSchedulerUnconstrained == InitScheduler /\ [][NextSchedulerUnconstrained]_vars

\* --------------------------------------------------------- retention reaper
\* schedule_tasks.py cleanup_old_backups, run by celery beat every hour
\* Backup rows stored for the schedule's target
NumStored == 4
\* calendar days the stored rows' created_at spread over
MaxStoredDay == 2
\* datetime: minutes of a day (timedelta(days=1), datetime.date())
MinutesPerDay == 1440

StoredIds == 1..NumStored

\* instants a stored row can have been created at: two on each day
Stamps == {d * MinutesPerDay + m : d \in 0..MaxStoredDay, m \in 0..1}

\* created_at.date()
date(ts) == ts \div MinutesPerDay

\* models/schedule.py RetentionPolicy: the five nullable rules
RetentionPolicy(last_n, days, daily, weekly, monthly) ==
    [ keep_last_n  |-> last_n,
      keep_days    |-> days,
      keep_daily   |-> daily,
      keep_weekly  |-> weekly,
      keep_monthly |-> monthly ]

Policies ==
    { RetentionPolicy(last_n, days, daily, weekly, monthly) :
        last_n  \in {None, Some(1), Some(2)},
        days    \in {None, Some(1)},
        daily   \in {None, Some(0), Some(1), Some(2)},
        weekly  \in {None, Some(1)},
        monthly \in {None, Some(1)} }

\* a Backup row of server 1's "appdb" as some earlier run left it
StoredBackup(created, status) ==
    [PendingRow("postgresql") EXCEPT !.status = status] @@
    [ server_id     |-> 1,
      database_name |-> "appdb",
      backup_type   |-> "full",
      created_at    |-> created,
      deleted_at    |-> None ]

\* rows are created in the order of their ids; schedule 1 carries the policy
InitReaper ==
    /\ catalog \in [StoredIds -> { StoredBackup(created, status) :
                                     created \in Stamps,
                                     status \in {"completed", "failed"} }]
    /\ \A b \in StoredIds :
           b + 1 \in StoredIds => catalog[b].created_at < catalog[b + 1].created_at
    /\ blob = [k \in StorageKeys |-> None]
    /\ today = 0
    /\ task = [t \in Tasks |-> IdleTask]
    /\ \E policy \in Policies :
        schedules = [id \in ScheduleIds |->
            ScheduleRow(id, TRUE, "* * * * *", None, None,
                        IF id = 1 THEN Some(policy) ELSE None)]
    /\ now = MaxStoredDay * MinutesPerDay + 1
    /\ queue = {}
    /\ ticker = IdleTicker
    /\ reaper = IdleReaper
    /\ ServicesIdle

\* lines 75-81: select the schedules that reference a retention policy
ReapBegin ==
    /\ reaper.pc \in {"idle", "done"}
    /\ \E todo \in Orderings({s \in DOMAIN schedules :
                                schedules[s].retention_policy # None}) :
        reaper' = [IdleReaper EXCEPT !.pc = "list", !.todo = todo,
                                     !.ran = reaper.ran]
    /\ UNCHANGED <<catalog, blob, today, task, schedules, now, queue, ticker>>
    /\ UNCHANGED services

\* ids sorted by created_at, newest first
RECURSIVE NewestFirst(_)
NewestFirst(ids) ==
    IF ids = {} THEN <<>>
    ELSE LET newest == CHOOSE b \in ids :
                 \A c \in ids : catalog[c].created_at <= catalog[b].created_at
         IN  <<newest>> \o NewestFirst(ids \ {newest})

\* lines 90-97: the completed Backups of the schedule's server and database,
\* ordered by created_at descending
ListCompleted(schedule) ==
    NewestFirst({ b \in DOMAIN catalog :
                    /\ catalog[b].server_id = schedule.server_id
                    /\ catalog[b].database_name = schedule.database_name
                    /\ catalog[b].status = "completed" })

\* lines 83-97: the next schedule of the loop, its policy, its backups
ReapList ==
    /\ reaper.pc = "list"
    /\ reaper.todo # <<>>
    /\ reaper' = [reaper EXCEPT
                    !.pc = "mark",
                    !.schedule = Some(Head(reaper.todo)),
                    !.listed = ListCompleted(schedules[Head(reaper.todo)]),
                    !.keep = {},
                    !.marked = FALSE]
    /\ UNCHANGED <<catalog, blob, today, task, schedules, now, queue, ticker>>
    /\ UNCHANGED services

\* "if policy.keep_...:" is false for NULL and for 0
Active(rule) == rule # None /\ The(rule) # 0

Range(q) == {q[i] : i \in 1..Len(q)}

\* a slice that starts one place late: backups[1:keep_last_n + 1]
KeepLastNLate(listed, n) ==
    {listed[i] : i \in 2..(IF n + 1 < Len(listed) THEN n + 1 ELSE Len(listed))}

\* lines 102-104: backups[:keep_last_n]
KeepLastN(listed, n) == {listed[i] : i \in 1..(IF n < Len(listed) THEN n ELSE Len(listed))}

\* lines 107-111: created_at >= utcnow() - timedelta(days=keep_days)
KeepDays(listed, days, t) ==
    {b \in Range(listed) : catalog[b].created_at >= t - days * MinutesPerDay}

\* the daily loop without its break: the newest backup of every date
RECURSIVE KeepDailyNoBreak(_, _, _, _)
KeepDailyNoBreak(listed, k, i, dates) ==
    IF i > Len(listed) THEN {}
    ELSE LET d == date(catalog[listed[i]].created_at) IN
         (IF d \in dates THEN {} ELSE {listed[i]})
         \cup KeepDailyNoBreak(listed, k, i + 1, dates \cup {d})

\* lines 114-122: walking the list from position i with the dates seen so
\* far, the first backup of each new date is kept, until k dates are held
RECURSIVE KeepDaily(_, _, _, _)
KeepDaily(listed, k, i, dates) ==
    IF i > Len(listed) THEN {}
    ELSE LET d      == date(catalog[listed[i]].created_at)
             dates2 == dates \cup {d}
         IN  (IF d \in dates THEN {} ELSE {listed[i]})
             \cup (IF Cardinality(dates2) >= k THEN {}
                   ELSE KeepDaily(listed, k, i + 1, dates2))

\* lines 99-122: backups_to_keep
backups_to_keep(policy, listed, t) ==
    (IF Active(policy.keep_last_n)
     THEN KeepLastN(listed, The(policy.keep_last_n)) ELSE {})
    \cup (IF Active(policy.keep_days)
          THEN KeepDays(listed, The(policy.keep_days), t) ELSE {})
    \cup (IF Active(policy.keep_daily)
          THEN KeepDaily(listed, The(policy.keep_daily), 1, {}) ELSE {})

\* lines 125-129: every listed backup outside the keep-set is soft-deleted
Marked(cat, listed, keep, t) ==
    [b \in DOMAIN cat |->
        IF b \in Range(listed) /\ b \notin keep
        THEN [cat[b] EXCEPT !.status = "deleted", !.deleted_at = Some(t)]
        ELSE cat[b]]

\* lines 99-131: keep-set, soft deletes, commit
ReapMark ==
    /\ reaper.pc = "mark"
    /\ LET policy == The(schedules[The(reaper.schedule)].retention_policy)
           keep   == backups_to_keep(policy, reaper.listed, now)
       IN  /\ catalog' = Marked(catalog, reaper.listed, keep, now)
           /\ reaper' = [reaper EXCEPT !.pc = "list", !.todo = Tail(@),
                                       !.keep = keep, !.marked = TRUE]
    /\ UNCHANGED <<blob, today, task, schedules, now, queue, ticker>>
    /\ UNCHANGED services

\* the loop has gone through every schedule it selected
ReapEnd ==
    /\ reaper.pc = "list"
    /\ reaper.todo = <<>>
    /\ reaper' = [reaper EXCEPT !.pc = "done", !.ran = TRUE]
    /\ UNCHANGED <<catalog, blob, today, task, schedules, now, queue, ticker>>
    /\ UNCHANGED services

NextReaper ==
    \/ ReapBegin
    \/ ReapList
    \/ ReapMark
    \/ ReapEnd

SpecReaper == InitReaper /\ [][NextReaper]_vars

\* the policies whose implemented rules differ
ImplementedPolicies ==
    { RetentionPolicy(last_n, days, daily, None, None) :
        last_n \in {None, Some(1), Some(2)},
        days   \in {None, Some(1)},
        daily  \in {None, Some(1), Some(2)} }

\* every schedule targets server 1's "appdb", each under a policy of its own
InitReaperShared ==
    /\ catalog \in [StoredIds -> { StoredBackup(created, "completed") :
                                     created \in Stamps }]
    /\ \A b \in StoredIds :
           b + 1 \in StoredIds => catalog[b].created_at < catalog[b + 1].created_at
    /\ blob = [k \in StorageKeys |-> None]
    /\ today = 0
    /\ task = [t \in Tasks |-> IdleTask]
    /\ \E policy \in [ScheduleIds -> ImplementedPolicies] :
        schedules = [id \in ScheduleIds |->
            [ScheduleRow(id, TRUE, "* * * * *", None, None, Some(policy[id]))
                EXCEPT !.server_id = 1]]
    /\ now = MaxStoredDay * MinutesPerDay + 1
    /\ queue = {}
    /\ ticker = IdleTicker
    /\ reaper = IdleReaper
    /\ ServicesIdle

SpecReaperShared == InitReaperShared /\ [][NextReaper]_vars

\* ------------------------------------------------------------ health prober
\* schedule_tasks.py check_server_health, run by celery beat every minute
\* Server rows
NumServers == 2
\* runs of check_server_health
MaxHealthTicks == 3

ServerIds == 1..NumServers

\* models/server.py
ServerType == {"docker", "kubernetes", "bare_metal"}
HealthStatus == {"healthy", "degraded", "unhealthy", "unknown"}

\* deployment types of the registered servers
ProbedTypes == {"bare_metal", "docker"}

\* models/server.py Server
ServerRow(type, is_active, health_status) ==
    [ type           |-> type,
      is_active      |-> is_active,
      health_status  |-> health_status,
      last_heartbeat |-> None ]

InitHealth ==
    /\ catalog = <<>>
    /\ blob = [k \in StorageKeys |-> None]
    /\ today = 0
    /\ task = [t \in Tasks |-> IdleTask]
    /\ PeriodicIdle
    /\ servers \in [ServerIds -> { ServerRow(type, is_active, health_status) :
                                     type \in ProbedTypes, is_active \in BOOLEAN,
                                     health_status \in HealthStatus }]
    /\ prober = IdleProber
    /\ alerts = [s \in ServerIds |-> <<>>]
    /\ BusIdle
    /\ RemoteIdle

\* lines 140-145: select the active servers, read the clock
HealthBegin ==
    /\ prober.pc \in {"idle", "done"}
    /\ prober.ticks < MaxHealthTicks
    /\ \E todo \in Orderings({s \in DOMAIN servers : servers[s].is_active}) :
        prober' = [IdleProber EXCEPT
                     !.pc = "loop", !.ticks = prober.ticks + 1, !.todo = todo,
                     !.status = [s \in Range(todo) |-> servers[s].health_status]]
    /\ UNCHANGED <<servers, alerts>>
    /\ UNCHANGED beside_health

\* lines 150-158: ExecutorFactory.create_executor, then
\* executor.execute("echo 'ping'").  The SSH executor's execute takes the
\* command and returns an ExecutionResult; DockerExecutor.execute(container,
\* command) and KubernetesExecutor.execute(namespace, pod, command) called
\* with the one argument raise TypeError; create_executor can raise for any
\* type
ProbeOutcomes(type) ==
    IF type = "bare_metal"
    THEN {"success", "failure", "exception"}
    ELSE {"exception"}

\* lines 163, 176, 188: the status the probe's outcome assigns
HealthAfter(outcome) ==
    CASE outcome = "success" -> "healthy"
      [] outcome = "failure" -> "unhealthy"
      [] OTHER               -> "unknown"

\* an alert for every failed probe, whatever the status was
AlertsForEveryFailure(previous_status, outcome) ==
    CASE outcome = "success" /\ previous_status = "unhealthy" -> <<"HEALTHY">>
      [] outcome = "failure"                                  -> <<"UNHEALTHY">>
      [] OTHER                                                -> <<>>

\* no alert for a recovered server
AlertsForNoRecovery(previous_status, outcome) ==
    CASE outcome = "failure" /\ previous_status # "unhealthy" -> <<"UNHEALTHY">>
      [] OTHER                                                -> <<>>

\* lines 166-172, 178-184: the calls of send_server_health_alert
AlertsFor(previous_status, outcome) ==
    CASE outcome = "success" /\ previous_status = "unhealthy" -> <<"HEALTHY">>
      [] outcome = "failure" /\ previous_status # "unhealthy" -> <<"UNHEALTHY">>
      [] OTHER                                                -> <<>>

\* an exception of the probe ending the loop
ProbeHandlerOuter(outcome) ==
    IF outcome = "exception" THEN "except" ELSE "commit"

\* lines 148, 186-188: the try around one server's probe catches its
\* exception; the loop goes on to line 190
ProbeHandler(outcome) == "commit"

\* lines 147-188: the next server of the loop is probed, its status (and on
\* success its heartbeat) assigned on the loaded object, the alert sent
HealthProbe ==
    /\ prober.pc = "loop"
    /\ prober.todo # <<>>
    /\ LET s == Head(prober.todo) IN
       \E outcome \in ProbeOutcomes(servers[s].type) :
        /\ prober' = [prober EXCEPT
                        !.pc = ProbeHandler(outcome),
                        !.status[s] = HealthAfter(outcome),
                        !.threw = IF outcome = "exception" THEN @ \cup {s} ELSE @]
        /\ alerts' = [alerts EXCEPT ![s] = @ \o AlertsFor(prober.status[s], outcome)]
    /\ UNCHANGED servers
    /\ UNCHANGED beside_health

\* line 190: db.commit() writes the server's row, or raises
HealthCommit ==
    /\ prober.pc = "commit"
    /\ \E committed \in BOOLEAN :
        LET s == Head(prober.todo) IN
        IF committed
        THEN /\ servers' = [servers EXCEPT
                   ![s].health_status = prober.status[s],
                   ![s].last_heartbeat =
                       IF prober.status[s] = "healthy" THEN Some(now) ELSE @]
             /\ prober' = [prober EXCEPT !.pc = "loop", !.todo = Tail(@),
                                         !.probed = Append(@, s)]
        ELSE /\ prober' = [prober EXCEPT !.pc = "except", !.failed = TRUE]
             /\ UNCHANGED servers
    /\ UNCHANGED alerts
    /\ UNCHANGED beside_health

\* lines 192-193: the except clause around the loop logs the error
HealthExcept ==
    /\ prober.pc = "except"
    /\ prober' = [prober EXCEPT !.pc = "done"]
    /\ UNCHANGED <<servers, alerts>>
    /\ UNCHANGED beside_health

\* the loop has gone through every server it selected
HealthEnd ==
    /\ prober.pc = "loop"
    /\ prober.todo = <<>>
    /\ prober' = [prober EXCEPT !.pc = "done"]
    /\ UNCHANGED <<servers, alerts>>
    /\ UNCHANGED beside_health

NextHealth ==
    \/ HealthBegin
    \/ HealthProbe
    \/ HealthCommit
    \/ HealthExcept
    \/ HealthEnd

SpecHealth == InitHealth /\ [][NextHealth]_vars

\* ------------------------------------------------------------ fan-out bus
\* services/websocket.py ConnectionManager, api/v1/websocket.py endpoints.
\* The manager and the endpoints are coroutines of one event loop: the code
\* between two awaits runs without interleaving.

\* the endpoints that register with the manager, and the channel each
\* connects to (api/v1/websocket.py 26, 81, 94)
Endpoints == {"/ws", "/ws/logs", "/ws/servers"}
EndpointChannel(endpoint) ==
    CASE endpoint = "/ws"         -> "all"
      [] endpoint = "/ws/logs"    -> "logs"
      [] endpoint = "/ws/servers" -> "servers"

\* the channel names the clients' subscribe and unsubscribe frames carry:
\* the endpoint's own channel, another channel of the manager, and a name
\* the manager does not know
FrameChannels == {"all", "backups", "other"}

InitBus ==
    /\ catalog = <<>>
    /\ blob = [k \in StorageKeys |-> None]
    /\ today = 0
    /\ task = [t \in Tasks |-> IdleTask]
    /\ PeriodicIdle
    /\ HealthIdle
    /\ BusIdle
    /\ RemoteIdle

\* connect, lines 29-35, after the accept
connect(websocket, channel, user_id) ==
    /\ active_connections' =
           IF channel \in DOMAIN active_connections
           THEN [active_connections EXCEPT ![channel] = @ \cup {websocket}]
           ELSE active_connections
    /\ user_connections' =
           IF user_id = None
           THEN user_connections
           ELSE LET u == The(user_id)
                    held == IF u \in DOMAIN user_connections
                            THEN user_connections[u] ELSE {}
                IN  [v \in DOMAIN user_connections \cup {u} |->
                        IF v = u THEN held \cup {websocket}
                                 ELSE user_connections[v]]

\* disconnect, lines 41-47
disconnect(websocket, channel, user_id) ==
    /\ active_connections' =
           IF channel \in DOMAIN active_connections
           THEN [active_connections EXCEPT ![channel] = @ \ {websocket}]
           ELSE active_connections
    /\ user_connections' =
           IF user_id # None /\ The(user_id) \in DOMAIN user_connections
           THEN LET u == The(user_id)
                    left == user_connections[u] \ {websocket}
                IN  [v \in DOMAIN user_connections \ (IF left = {} THEN {u} ELSE {}) |->
                        IF v = u THEN left ELSE user_connections[v]]
           ELSE user_connections

\* api/v1/websocket.py 26, 81, 94: a client opens one of the endpoints; the
\* endpoint calls manager.connect with its channel and no user id
Connect(s, endpoint) ==
    /\ sockets[s].endpoint = "none"
    /\ sockets' = [sockets EXCEPT ![s].endpoint = endpoint]
    /\ connect(s, EndpointChannel(endpoint), None)
    /\ UNCHANGED cast
    /\ UNCHANGED beside_bus

\* api/v1/websocket.py 37-43: a subscribe frame.  manager.connect calls
\* websocket.accept() on the accepted connection once more: the framework
\* either lets it pass, and the socket joins the channel, or raises, which
\* neither except clause of the endpoint catches, so the endpoint ends with
\* the socket left in its sets
Subscribe(s, channel) ==
    /\ sockets[s].endpoint = "/ws"
    /\ sockets[s].peer = "reading"
    /\ \E accepted \in BOOLEAN :
        IF accepted
        THEN /\ connect(s, channel, None)
             /\ UNCHANGED sockets
        ELSE /\ sockets' = [sockets EXCEPT ![s] = [endpoint |-> "crashed", peer |-> "gone"]]
             /\ UNCHANGED <<active_connections, user_connections>>
    /\ UNCHANGED cast
    /\ UNCHANGED beside_bus

\* api/v1/websocket.py 44-50: an unsubscribe frame
Unsubscribe(s, channel) ==
    /\ sockets[s].endpoint = "/ws"
    /\ sockets[s].peer = "reading"
    /\ disconnect(s, channel, None)
    /\ UNCHANGED <<sockets, cast>>
    /\ UNCHANGED beside_bus

\* the client stops reading what it is sent
PeerStall(s) ==
    /\ sockets[s].endpoint \in Endpoints
    /\ sockets[s].peer = "reading"
    /\ sockets' = [sockets EXCEPT ![s].peer = "stalled"]
    /\ UNCHANGED <<active_connections, user_connections, cast>>
    /\ UNCHANGED beside_bus

\* the client closes the connection
PeerGone(s) ==
    /\ sockets[s].endpoint \in Endpoints
    /\ sockets[s].peer # "gone"
    /\ sockets' = [sockets EXCEPT ![s].peer = "gone"]
    /\ UNCHANGED <<active_connections, user_connections, cast>>
    /\ UNCHANGED beside_bus

\* api/v1/websocket.py 54-55, 86-87, 99-100: receive_text raises
\* WebSocketDisconnect; the endpoint disconnects the socket from the channel
\* it connected it to, and returns
EndpointDisconnect(s) ==
    /\ sockets[s].endpoint \in Endpoints
    /\ sockets[s].peer = "gone"
    /\ disconnect(s, EndpointChannel(sockets[s].endpoint), None)
    /\ sockets' = [sockets EXCEPT ![s].endpoint = "ended"]
    /\ UNCHANGED cast
    /\ UNCHANGED beside_bus

\* the set a broadcast iterates: lines 64 and 81 iterate the manager's own
\* set, not a copy
Subscribers(kind, key) ==
    IF kind = "channel" THEN active_connections[key] ELSE user_connections[key]

\* a sweep that removes nobody
SweptNobody(kind, key, disconnected) ==
    Subscribers(kind, key)

\* lines 72-73, 89-91: the set after the sweep of the sockets whose send
\* raised
Swept(kind, key, disconnected) ==
    Subscribers(kind, key) \ disconnected

\* lines 64, 72-73 and 81, 89-91: with the locals c, the for statement asks
\* the set's iterator for the next socket and the broadcast runs on to its
\* next await.  The iterator raises RuntimeError when the set's size is not
\* the size the iteration began with; over a set of that size it yields a
\* socket not yet visited, and over a set whose members changed in between
\* it may also stop with members unvisited.  When it stops the sweep runs and
\* the broadcast returns
Iterate(c) ==
    LET live == Subscribers(c.kind, c.key) IN
    IF Cardinality(live) # Cardinality(c.start)
    THEN /\ cast' = [c EXCEPT !.pc = "raised"]
         /\ UNCHANGED <<active_connections, user_connections>>
    ELSE \/ \E connection \in live \ c.visited :
             /\ cast' = [c EXCEPT !.pc = "send",
                                  !.connection = Some(connection),
                                  !.visited = @ \cup {connection}]
             /\ UNCHANGED <<active_connections, user_connections>>
         \/ /\ live \subseteq c.visited \/ live # c.start
            /\ cast' = [c EXCEPT !.pc = "done"]
            /\ IF c.kind = "channel"
               THEN /\ active_connections' =
                          [active_connections EXCEPT
                             ![c.key] = Swept(c.kind, c.key, c.disconnected)]
                    /\ UNCHANGED user_connections
               ELSE /\ user_connections' =
                          [user_connections EXCEPT
                             ![c.key] = Swept(c.kind, c.key, c.disconnected)]
                    /\ UNCHANGED active_connections

\* lines 58-66: broadcast(message, channel) is called and runs to its first
\* send, or to its return when the channel has no subscriber
Broadcast(channel) ==
    /\ cast.pc \in {"idle", "done", "raised"}
    /\ Iterate([IdleCast EXCEPT !.kind = "channel", !.key = channel,
                                !.start = active_connections[channel]])
    /\ UNCHANGED sockets
    /\ UNCHANGED beside_bus

\* lines 75-83: broadcast_to_user(message, user_id) is called and runs to its
\* first send; it returns at once for a user without connections
BroadcastToUser(user_id) ==
    /\ cast.pc \in {"idle", "done", "raised"}
    /\ IF user_id \in DOMAIN user_connections
       THEN Iterate([IdleCast EXCEPT !.kind = "user", !.key = user_id,
                                     !.start = user_connections[user_id]])
       ELSE /\ cast' = [IdleCast EXCEPT !.pc = "done", !.kind = "user", !.key = user_id]
            /\ UNCHANGED <<active_connections, user_connections>>
    /\ UNCHANGED sockets
    /\ UNCHANGED beside_bus

\* lines 65-69, 82-86: await connection.send_json(message) completes: the
\* message is delivered, or the send raises on a closed connection and the
\* socket is noted; the loop goes on.  A send to a peer that does not read
\* does not complete
CastSent ==
    /\ cast.pc = "send"
    /\ LET connection == The(cast.connection) IN
        \/ /\ sockets[connection].peer = "reading"
           /\ Iterate([cast EXCEPT !.connection = None,
                                   !.delivered = @ \cup {connection}])
        \/ /\ sockets[connection].peer = "gone"
           /\ Iterate([cast EXCEPT !.connection = None,
                                   !.disconnected = @ \cup {connection}])
    /\ UNCHANGED sockets
    /\ UNCHANGED beside_bus

NextBus ==
    \/ \E s \in Sockets, endpoint \in Endpoints : Connect(s, endpoint)
    \/ \E s \in Sockets, channel \in FrameChannels : Subscribe(s, channel)
    \/ \E s \in Sockets, channel \in FrameChannels : Unsubscribe(s, channel)
    \/ \E s \in Sockets : PeerStall(s)
    \/ \E s \in Sockets : PeerGone(s)
    \/ \E s \in Sockets : EndpointDisconnect(s)
    \/ \E channel \in Channels : Broadcast(channel)
    \/ \E user_id \in Users : BroadcastToUser(user_id)
    \/ CastSent

SpecBus == InitBus /\ [][NextBus]_vars

\* the event loop runs a broadcast that can take a step
SpecBusFair == SpecBus /\ WF_vars(CastSent)

\* ------------------------------------------------------- remote executors
\* services/executor.py: SSHExecutor, DockerExecutor, KubernetesExecutor.
\* A str is the sequence of its characters.
\* pieces a submitted command is put together from
MaxPieces == 4

\* calls of execute on one executor
MaxExecutes == 3

\* the backquote character
Backquote == "backquote"

\* str.strip() and str.split() take these as whitespace
Whitespace == {" ", "\t", "\n", "\r"}

RECURSIVE lstrip(_)
lstrip(str) ==
    IF str # <<>> /\ Head(str) \in Whitespace THEN lstrip(Tail(str)) ELSE str

RECURSIVE rstrip(_)
rstrip(str) ==
    IF str # <<>> /\ str[Len(str)] \in Whitespace
    THEN rstrip(SubSeq(str, 1, Len(str) - 1))
    ELSE str

\* str.strip()
strip(str) == rstrip(lstrip(str))

\* the characters of str up to its first whitespace
RECURSIVE until_whitespace(_)
until_whitespace(str) ==
    IF str = <<>> \/ Head(str) \in Whitespace
    THEN <<>>
    ELSE <<Head(str)>> \o until_whitespace(Tail(str))

\* str.strip().split(): whether it has an element 0, and that element
has_token(str) == strip(str) # <<>>
first_token(str) == until_whitespace(lstrip(str))

\* str.startswith(prefix)
startswith(str, prefix) ==
    /\ Len(str) >= Len(prefix)
    /\ SubSeq(str, 1, Len(prefix)) = prefix

\* pattern in str
contains(str, pattern) ==
    \E i \in 1..(Len(str) - Len(pattern) + 1) :
        SubSeq(str, i, i + Len(pattern) - 1) = pattern

\* str.split(sep) for a separator of one character
RECURSIVE split(_, _)
split(str, sep) ==
    IF \A i \in 1..Len(str) : str[i] # sep
    THEN <<str>>
    ELSE LET i == CHOOSE i \in 1..Len(str) :
                      /\ str[i] = sep
                      /\ \A j \in 1..(i - 1) : str[j] # sep
         IN  <<SubSeq(str, 1, i - 1)>> \o split(SubSeq(str, i + 1, Len(str)), sep)

\* SSHExecutor._validate_command, lines 98-106
ssh_allowed_prefixes ==
    { <<"p", "g", "_", "d", "u", "m", "p">>,
      <<"p", "g", "_", "r", "e", "s", "t", "o", "r", "e">>,
      <<"p", "g", "_", "b", "a", "s", "e", "b", "a", "c", "k", "u", "p">>,
      <<"p", "s", "q", "l">>,
      <<"m", "y", "s", "q", "l", "d", "u", "m", "p">>,
      <<"m", "y", "s", "q", "l">>,
      <<"m", "o", "n", "g", "o", "d", "u", "m", "p">>,
      <<"m", "o", "n", "g", "o", "r", "e", "s", "t", "o", "r", "e">>,
      <<"r", "e", "d", "i", "s", "-", "c", "l", "i">>,
      <<"t", "a", "r">>, <<"g", "z", "i", "p">>,
      <<"g", "u", "n", "z", "i", "p">>, <<"z", "s", "t", "d">>,
      <<"l", "z", "4">>, <<"c", "a", "t">>, <<"l", "s">>,
      <<"m", "k", "d", "i", "r">>, <<"r", "m">>, <<"c", "p">>,
      <<"m", "v">>, <<"d", "u">>, <<"d", "f">>,
      <<"w", "h", "i", "c", "h">>, <<"e", "c", "h", "o">>,
      <<"t", "e", "s", "t">> }

\* DockerExecutor._validate_command, lines 216-223, and
\* KubernetesExecutor._validate_command, lines 330-337
container_allowed_prefixes ==
    { <<"p", "g", "_", "d", "u", "m", "p">>,
      <<"p", "g", "_", "r", "e", "s", "t", "o", "r", "e">>,
      <<"p", "s", "q", "l">>,
      <<"m", "y", "s", "q", "l", "d", "u", "m", "p">>,
      <<"m", "y", "s", "q", "l">>,
      <<"m", "o", "n", "g", "o", "d", "u", "m", "p">>,
      <<"m", "o", "n", "g", "o", "r", "e", "s", "t", "o", "r", "e">>,
      <<"r", "e", "d", "i", "s", "-", "c", "l", "i">>,
      <<"t", "a", "r">>, <<"g", "z", "i", "p">>,
      <<"g", "u", "n", "z", "i", "p">>, <<"z", "s", "t", "d">>,
      <<"l", "z", "4">>, <<"c", "a", "t">>, <<"l", "s">>,
      <<"e", "c", "h", "o">>, <<"s", "h">>, <<"b", "a", "s", "h">> }

\* line 118
safe_pipes ==
    { <<"g", "z", "i", "p">>, <<"g", "u", "n", "z", "i", "p">>,
      <<"z", "s", "t", "d">>, <<"l", "z", "4">> }

\* lines 127, 237, 345: the patterns, in the order they are looked for
dangerous_patterns ==
    << <<";">>, <<"&">>, <<"\n">>, <<"\r">>, <<"$", "(">>, <<Backquote>> >>
kubernetes_dangerous_patterns ==
    << <<";">>, <<"&">>, <<"$", "(">>, <<Backquote>>, <<"\n">>, <<"\r">> >>

\* what _validate_command does: returns, raises ValidationError(message
\* with the text it inserts), or raises another exception
Valid == [ raises |-> "nothing", message |-> "", text |-> <<>> ]
ValidationError(message, text) ==
    [ raises |-> "ValidationError", message |-> message, text |-> text ]
Raises(exception) == [ raises |-> exception, message |-> "", text |-> <<>> ]

\* lines 119-124: the parts after a pipe, in order; part.strip().split()[0]
\* of a part without a token raises IndexError
RECURSIVE check_pipes(_)
check_pipes(parts) ==
    IF parts = <<>> THEN Valid
    ELSE IF ~has_token(Head(parts)) THEN Raises("IndexError")
    ELSE LET piped_cmd == first_token(Head(parts)) IN
         IF ~\E safe \in safe_pipes : startswith(piped_cmd, safe)
         THEN ValidationError("Unsafe pipe command", piped_cmd)
         ELSE check_pipes(Tail(parts))

\* lines 127-129, 237-239: the first pattern of the list found in the command
RECURSIVE check_patterns(_, _, _)
check_patterns(str, patterns, message) ==
    IF patterns = <<>> THEN Valid
    ELSE IF contains(str, Head(patterns))
         THEN ValidationError(message, Head(patterns))
         ELSE check_patterns(str, Tail(patterns), message)

\* SSHExecutor._validate_command(command), lines 89-129
ssh_validate_command(command) ==
    IF ~has_token(command)
    THEN ValidationError("Command cannot be empty", <<>>)
    ELSE LET command_base == first_token(command) IN
         IF ~\E prefix \in ssh_allowed_prefixes : startswith(command_base, prefix)
         THEN ValidationError("Command not allowed", command_base)
         ELSE LET piped == check_pipes(Tail(split(command, "|"))) IN
              IF piped # Valid
              THEN piped
              ELSE check_patterns(command, dangerous_patterns,
                                  "Command contains dangerous pattern")

\* DockerExecutor._validate_command(command) for a str, lines 210-239
docker_validate_command(command) ==
    IF ~has_token(command)
    THEN ValidationError("Command cannot be empty", <<>>)
    ELSE LET command_base == first_token(command) IN
         IF ~\E prefix \in container_allowed_prefixes : startswith(command_base, prefix)
         THEN ValidationError("Command not allowed", command_base)
         ELSE check_patterns(command, dangerous_patterns,
                             "Command contains dangerous pattern")

\* lines 344-347: the arguments in order, each against the patterns
RECURSIVE check_arguments(_)
check_arguments(arguments) ==
    IF arguments = <<>> THEN Valid
    ELSE LET found == check_patterns(Head(arguments), kubernetes_dangerous_patterns,
                                     "Command argument contains dangerous pattern")
         IN  IF found # Valid THEN found ELSE check_arguments(Tail(arguments))

\* KubernetesExecutor._validate_command(command) for a list of str,
\* lines 324-347
kubernetes_validate_command(command) ==
    IF command = <<>>
    THEN ValidationError("Command must be a non-empty list", <<>>)
    ELSE LET command_base == command[1] IN
         IF ~\E prefix \in container_allowed_prefixes : startswith(command_base, prefix)
         THEN ValidationError("Command not allowed", command_base)
         ELSE check_arguments(command)

\* ExecutorFactory.create_executor: the executor classes
Variants == {"ssh", "docker", "kubernetes"}

\* what callers put commands together from: names of programs, an
\* argument, separators and the shell's metacharacters
Pieces ==
    { <<"p", "g", "_", "d", "u", "m", "p">>, <<"r", "m">>,
      <<"s", "h">>, <<"l", "s", "o", "f">>, <<"n", "c">>,
      <<"g", "z", "i", "p">>, <<" ">>, <<"|">>, <<";">>, <<"&">>,
      <<"\n">>, <<"\r">>, <<"$", "(">>, <<Backquote>> }

RECURSIVE join(_)
join(pieces) == IF pieces = <<>> THEN <<>> ELSE Head(pieces) \o join(Tail(pieces))

\* the command execute is given: a str for SSHExecutor.execute(command) and
\* DockerExecutor.execute(container, command), a list of str for
\* KubernetesExecutor.execute(namespace, pod, command)
Command(variant, pieces) ==
    IF variant = "kubernetes" THEN pieces ELSE join(pieces)

\* the variant's _validate_command
validate_command(variant, command) ==
    CASE variant = "ssh"        -> ssh_validate_command(command)
      [] variant = "docker"     -> docker_validate_command(command)
      [] variant = "kubernetes" -> kubernetes_validate_command(command)

\* lines 138, 249, 365: the stderr text put before the validator's message
ValidationPrefix(variant) ==
    IF variant = "ssh" THEN "Command validation failed" ELSE "Validation failed"

InitExecutor ==
    /\ catalog = <<>>
    /\ blob = [k \in StorageKeys |-> None]
    /\ today = 0
    /\ task = [t \in Tasks |-> IdleTask]
    /\ PeriodicIdle
    /\ HealthIdle
    /\ BusIdle
    /\ submitted \in UNION {[1..n -> Pieces] : n \in 0..MaxPieces}
    /\ engine = IdleEngine
    /\ \E variant \in Variants : executor = [IdleExecutor EXCEPT !.variant = variant]

\* execute up to its first await (lines 131-142, 241-252, 349-370): the
\* command is validated, with a valid container name or namespace; a
\* ValidationError becomes the result, another exception leaves execute
Execute ==
    /\ executor.pc = "idle"
    /\ LET checked == validate_command(executor.variant,
                                       Command(executor.variant, submitted)) IN
       executor' =
           CASE checked.raises = "ValidationError" ->
                    [executor EXCEPT
                       !.pc = "returned",
                       !.executes = @ + 1,
                       !.result = Some(ExecutionResult(FALSE,
                           <<ValidationPrefix(executor.variant),
                             checked.message, checked.text>>))]
             [] checked.raises = "nothing" ->
                    [executor EXCEPT
                       !.executes = @ + 1,
                       !.pc = IF executor.variant = "ssh" /\ executor.client = "none"
                              THEN "connect" ELSE "call"]
             [] OTHER ->
                    [executor EXCEPT !.pc = "raised", !.executes = @ + 1]
    /\ UNCHANGED <<submitted, engine>>
    /\ UNCHANGED beside_remote

\* SSHExecutor.connect, lines 53-87 and 140-142: self.client is set before
\* the connection is tried
SshConnect ==
    /\ executor.pc = "connect"
    /\ \E connected \in BOOLEAN :
        executor' =
            IF connected
            THEN [executor EXCEPT !.pc = "call", !.client = "connected"]
            ELSE [executor EXCEPT
                    !.pc = "returned", !.client = "unconnected",
                    !.result = Some(ExecutionResult(FALSE, <<"Connection failed">>))]
    /\ UNCHANGED <<submitted, engine>>
    /\ UNCHANGED beside_remote

\* lines 144-166, 251-274, 367-392: the command is handed to the remote
\* target (exec_command, exec_run, connect_get_namespaced_pod_exec);
\* exec_command of an SSHClient with no live transport raises, and the
\* except clause of lines 164-166 turns that into a failed result
RemoteCall ==
    /\ executor.pc = "call"
    /\ IF executor.variant = "ssh" /\ executor.client # "connected"
       THEN executor' = [executor EXCEPT
                !.pc = "returned",
                !.result = Some(ExecutionResult(FALSE, <<"SSH session not active">>))]
       ELSE \E success \in BOOLEAN :
            executor' = [executor EXCEPT
                !.pc = "returned",
                !.calls = Append(@, Command(executor.variant, submitted)),
                !.result = Some(ExecutionResult(success, <<"stderr of the command">>))]
    /\ UNCHANGED <<submitted, engine>>
    /\ UNCHANGED beside_remote

NextExecutor ==
    \/ Execute
    \/ SshConnect
    \/ RemoteCall

SpecExecutor == InitExecutor /\ [][NextExecutor]_vars

\* one SSHExecutor, as its constructor leaves it (lines 36-51), that is
\* given the same command over and over
InitSession ==
    /\ catalog = <<>>
    /\ blob = [k \in StorageKeys |-> None]
    /\ today = 0
    /\ task = [t \in Tasks |-> IdleTask]
    /\ PeriodicIdle
    /\ HealthIdle
    /\ BusIdle
    /\ submitted \in [1..1 -> Pieces]
    /\ engine = IdleEngine
    /\ executor = IdleExecutor

\* the owner of the executor calls execute again
ExecuteAgain ==
    /\ executor.pc = "returned"
    /\ executor.executes < MaxExecutes
    /\ executor' = [executor EXCEPT !.pc = "idle", !.result = None]
    /\ UNCHANGED <<submitted, engine>>
    /\ UNCHANGED beside_remote

\* SSHExecutor.close, lines 190-193: the client is closed and self.client
\* goes on holding it
Close ==
    /\ executor.pc \in {"idle", "returned"}
    /\ executor.client # "none"
    /\ executor' = [executor EXCEPT !.client = "closed"]
    /\ UNCHANGED <<submitted, engine>>
    /\ UNCHANGED beside_remote

\* the peer or the network ends the session between two calls
SessionLost ==
    /\ executor.pc \in {"idle", "returned"}
    /\ executor.client = "connected"
    /\ executor' = [executor EXCEPT !.client = "broken"]
    /\ UNCHANGED <<submitted, engine>>
    /\ UNCHANGED beside_remote

NextSession ==
    \/ Execute
    \/ SshConnect
    \/ RemoteCall
    \/ ExecuteAgain
    \/ Close
    \/ SessionLost

SpecSession == InitSession /\ [][NextSession]_vars

\* ---------------------------------------------------------- backup engines
\* services/backup_engines.py: the command strings the four engines hand to
\* executor.execute, for host "localhost", the family's default port,
\* database "appdb", the files /tmp/backup_1 and /tmp/restore_1, and the
\* Redis data directory /var/lib/redis.
EngineOperations == {"create_backup", "restore_backup", "list_databases"}

\* the database credentials of the server: each of username and password
\* empty or set
Credentials ==
    [ username : {<<>>, <<"a", "d", "m", "i", "n">>},
      password : {<<>>, <<"s", "e", "c", "r", "e", "t">>} ]

\* env_vars = f"PGPASSWORD={password}"
env_vars(credentials) ==
    <<"P", "G", "P", "A", "S", "S", "W", "O", "R", "D", "=">> \o credentials.password

\* MongoDBEngine: auth_str, empty unless username and password are both set
mongodb_auth_str(credentials) ==
    IF credentials.username # <<>> /\ credentials.password # <<>>
    THEN <<"-", "u", " ">> \o credentials.username \o <<" ", "-", "p", " ">> \o credentials.password \o <<" ",
         "-", "-", "a", "u", "t", "h", "e", "n", "t", "i", "c", "a", "t",
         "i", "o", "n", "D", "a", "t", "a", "b", "a", "s", "e", " ", "a",
         "d", "m", "i", "n">>
    ELSE <<>>

\* RedisEngine: auth_str = f"-a {password}" if password else ""
redis_auth_str(credentials) ==
    IF credentials.password # <<>>
    THEN <<"-", "a", " ">> \o credentials.password
    ELSE <<>>

\* the f-string of each engine command
command_text(step, credentials) ==
    LET username     == credentials.username
        password     == credentials.password
        mongodb_auth == mongodb_auth_str(credentials)
        redis_auth   == redis_auth_str(credentials)
    IN
    CASE step = "postgresql_create_full" ->   \* lines 66-74
            env_vars(credentials) \o <<" ", "p", "g", "_", "d", "u", "m", "p", " ", "-",
            "h", " ", "l", "o", "c", "a", "l", "h", "o", "s", "t", " ", "-",
            "p", " ", "5", "4", "3", "2", " ", "-", "U", " ">> \o username
            \o <<" ", "-", "d", " ", "a", "p", "p", "d", "b", " ", "-", "F",
            "c", " ", "-", "f", " ", "/", "t", "m", "p", "/", "b", "a", "c",
            "k", "u", "p", "_", "1">>
      [] step = "postgresql_create_incremental" ->   \* lines 75-82
            env_vars(credentials) \o <<" ", "p", "g", "_", "b", "a", "s", "e", "b", "a",
            "c", "k", "u", "p", " ", "-", "h", " ", "l", "o", "c", "a", "l",
            "h", "o", "s", "t", " ", "-", "p", " ", "5", "4", "3", "2", " ",
            "-", "U", " ">> \o username \o <<" ", "-", "D", " ", "/", "t",
            "m", "p", "/", "b", "a", "c", "k", "u", "p", "_", "1", " ", "-",
            "F", "p", " ", "-", "X", "s", " ", "-", "P">>
      [] step = "postgresql_restore" ->   \* lines 112-119
            env_vars(credentials) \o <<" ", "p", "g", "_", "r", "e", "s", "t", "o", "r",
            "e", " ", "-", "h", " ", "l", "o", "c", "a", "l", "h", "o", "s",
            "t", " ", "-", "p", " ", "5", "4", "3", "2", " ", "-", "U",
            " ">> \o username \o <<" ", "-", "d", " ", "a", "p", "p", "d",
            "b", " ", "-", "-", "c", "l", "e", "a", "n", " ", "-", "-", "i",
            "f", "-", "e", "x", "i", "s", "t", "s", " ", "-", "-", "n", "o",
            "-", "o", "w", "n", "e", "r", " ", "-", "-", "n", "o", "-", "a",
            "c", "l", " ", "/", "t", "m", "p", "/", "r", "e", "s", "t", "o",
            "r", "e", "_", "1">>
      [] step = "postgresql_list" ->   \* lines 138-142
            env_vars(credentials) \o <<" ", "p", "s", "q", "l", " ", "-", "h", " ", "l",
            "o", "c", "a", "l", "h", "o", "s", "t", " ", "-", "p", " ", "5",
            "4", "3", "2", " ", "-", "U", " ">> \o username \o <<" ", "-",
            "t", " ", "-", "c", " ", "\"", "S", "E", "L", "E", "C", "T",
            " ", "d", "a", "t", "n", "a", "m", "e", " ", "F", "R", "O", "M",
            " ", "p", "g", "_", "d", "a", "t", "a", "b", "a", "s", "e", " ",
            "W", "H", "E", "R", "E", " ", "d", "a", "t", "i", "s", "t", "e",
            "m", "p", "l", "a", "t", "e", " ", "=", " ", "f", "a", "l", "s",
            "e", ";", "\"">>
      [] step = "mysql_create" ->   \* lines 167-172
            <<"m", "y", "s", "q", "l", "d", "u", "m", "p", " ", "-", "h",
            " ", "l", "o", "c", "a", "l", "h", "o", "s", "t", " ", "-", "P",
            " ", "3", "3", "0", "6", " ", "-", "u", " ">> \o username \o
            <<" ", "-", "p">> \o password \o <<" ", "-", "-", "s", "i", "n",
            "g", "l", "e", "-", "t", "r", "a", "n", "s", "a", "c", "t", "i",
            "o", "n", " ", "-", "-", "q", "u", "i", "c", "k", " ", "-", "-",
            "l", "o", "c", "k", "-", "t", "a", "b", "l", "e", "s", "=", "f",
            "a", "l", "s", "e", " ", "a", "p", "p", "d", "b", " ", ">", " ",
            "/", "t", "m", "p", "/", "b", "a", "c", "k", "u", "p", "_",
            "1">>
      [] step = "mysql_restore" ->   \* lines 199-203
            <<"m", "y", "s", "q", "l", " ", "-", "h", " ", "l", "o", "c",
            "a", "l", "h", "o", "s", "t", " ", "-", "P", " ", "3", "3", "0",
            "6", " ", "-", "u", " ">> \o username \o <<" ", "-", "p">> \o
            password \o <<" ", "a", "p", "p", "d", "b", " ", "<", " ", "/",
            "t", "m", "p", "/", "r", "e", "s", "t", "o", "r", "e", "_",
            "1">>
      [] step = "mysql_list" ->   \* lines 222-225
            <<"m", "y", "s", "q", "l", " ", "-", "h", " ", "l", "o", "c",
            "a", "l", "h", "o", "s", "t", " ", "-", "P", " ", "3", "3", "0",
            "6", " ", "-", "u", " ">> \o username \o <<" ", "-", "p">> \o
            password \o <<" ", "-", "e", " ", "\"", "S", "H", "O", "W", " ",
            "D", "A", "T", "A", "B", "A", "S", "E", "S", ";", "\"">>
      [] step = "mongodb_create" ->   \* lines 255-260
            <<"m", "o", "n", "g", "o", "d", "u", "m", "p", " ", "-", "-",
            "h", "o", "s", "t", " ", "l", "o", "c", "a", "l", "h", "o", "s",
            "t", " ", "-", "-", "p", "o", "r", "t", " ", "2", "7", "0", "1",
            "7", " ">> \o mongodb_auth \o <<" ", "-", "-", "d", "b", " ",
            "a", "p", "p", "d", "b", " ", "-", "-", "o", "u", "t", " ", "/",
            "t", "m", "p", "/", "b", "a", "c", "k", "u", "p", "_", "1">>
      [] step = "mongodb_restore" ->   \* lines 289-295
            <<"m", "o", "n", "g", "o", "r", "e", "s", "t", "o", "r", "e",
            " ", "-", "-", "h", "o", "s", "t", " ", "l", "o", "c", "a", "l",
            "h", "o", "s", "t", " ", "-", "-", "p", "o", "r", "t", " ", "2",
            "7", "0", "1", "7", " ">> \o mongodb_auth \o <<" ", "-", "-",
            "d", "b", " ", "a", "p", "p", "d", "b", " ", "-", "-", "d", "r",
            "o", "p", " ", "/", "t", "m", "p", "/", "r", "e", "s", "t", "o",
            "r", "e", "_", "1", "/", "a", "p", "p", "d", "b">>
      [] step = "mongodb_list" ->   \* lines 319-322
            <<"m", "o", "n", "g", "o", " ", "-", "-", "h", "o", "s", "t",
            " ", "l", "o", "c", "a", "l", "h", "o", "s", "t", " ", "-", "-",
            "p", "o", "r", "t", " ", "2", "7", "0", "1", "7", " ">> \o
            mongodb_auth \o <<" ", "-", "-", "e", "v", "a", "l", " ", "'",
            "d", "b", ".", "a", "d", "m", "i", "n", "C", "o", "m", "m", "a",
            "n", "d", "(", "{", " ", "l", "i", "s", "t", "D", "a", "t", "a",
            "b", "a", "s", "e", "s", ":", " ", "1", " ", "}", ")", "'", " ",
            "-", "-", "q", "u", "i", "e", "t">>
      [] step = "redis_bgsave" ->   \* line 353
            <<"r", "e", "d", "i", "s", "-", "c", "l", "i", " ", "-", "h",
            " ", "l", "o", "c", "a", "l", "h", "o", "s", "t", " ", "-", "p",
            " ", "6", "3", "7", "9", " ">> \o redis_auth \o <<" ", "-", "n",
            " ", "0", " ", "B", "G", "S", "A", "V", "E">>
      [] step = "redis_create_dir" ->   \* line 365
            <<"r", "e", "d", "i", "s", "-", "c", "l", "i", " ", "-", "h",
            " ", "l", "o", "c", "a", "l", "h", "o", "s", "t", " ", "-", "p",
            " ", "6", "3", "7", "9", " ">> \o redis_auth \o <<" ", "C", "O",
            "N", "F", "I", "G", " ", "G", "E", "T", " ", "d", "i", "r">>
      [] step = "redis_create_copy" ->   \* line 373
            <<"c", "p", " ", "/", "v", "a", "r", "/", "l", "i", "b", "/",
            "r", "e", "d", "i", "s", "/", "d", "u", "m", "p", ".", "r", "d",
            "b", " ", "/", "t", "m", "p", "/", "b", "a", "c", "k", "u", "p",
            "_", "1">>
      [] step = "redis_restore_dir" ->   \* line 397
            <<"r", "e", "d", "i", "s", "-", "c", "l", "i", " ", "-", "h",
            " ", "l", "o", "c", "a", "l", "h", "o", "s", "t", " ", "-", "p",
            " ", "6", "3", "7", "9", " ">> \o redis_auth \o <<" ", "C", "O",
            "N", "F", "I", "G", " ", "G", "E", "T", " ", "d", "i", "r">>
      [] step = "redis_stop" ->   \* line 407
            <<"r", "e", "d", "i", "s", "-", "c", "l", "i", " ", "-", "h",
            " ", "l", "o", "c", "a", "l", "h", "o", "s", "t", " ", "-", "p",
            " ", "6", "3", "7", "9", " ">> \o redis_auth \o <<" ", "S", "H",
            "U", "T", "D", "O", "W", "N", " ", "N", "O", "S", "A", "V",
            "E">>
      [] step = "redis_restore_copy" ->   \* line 411
            <<"c", "p", " ", "/", "t", "m", "p", "/", "r", "e", "s", "t",
            "o", "r", "e", "_", "1", " ", "/", "v", "a", "r", "/", "l", "i",
            "b", "/", "r", "e", "d", "i", "s", "/", "d", "u", "m", "p", ".",
            "r", "d", "b">>
      [] step = "redis_start" ->   \* line 418
            <<"r", "e", "d", "i", "s", "-", "s", "e", "r", "v", "e", "r",
            " ", "-", "-", "d", "a", "e", "m", "o", "n", "i", "z", "e", " ",
            "y", "e", "s">>

\* the first command of an operation, "return" where the engine returns
\* without one: an unsupported backup type (lines 83-84, 173-174), the
\* Redis list of "DB 0" .. "DB 15" (line 426)
first_step(family, operation, kind) ==
    CASE family = "postgresql" /\ operation = "create_backup" ->
            IF kind = "full" THEN "postgresql_create_full"
            ELSE IF kind = "incremental" THEN "postgresql_create_incremental"
            ELSE "return"
      [] family = "postgresql" /\ operation = "restore_backup" -> "postgresql_restore"
      [] family = "postgresql" /\ operation = "list_databases" -> "postgresql_list"
      [] family = "mysql" /\ operation = "create_backup" ->
            IF kind = "full" THEN "mysql_create" ELSE "return"
      [] family = "mysql" /\ operation = "restore_backup" -> "mysql_restore"
      [] family = "mysql" /\ operation = "list_databases" -> "mysql_list"
      [] family = "mongodb" /\ operation = "create_backup" -> "mongodb_create"
      [] family = "mongodb" /\ operation = "restore_backup" -> "mongodb_restore"
      [] family = "mongodb" /\ operation = "list_databases" -> "mongodb_list"
      [] family = "redis" /\ operation = "create_backup" -> "redis_bgsave"
      [] family = "redis" /\ operation = "restore_backup" -> "redis_restore_dir"
      [] OTHER -> "return"

\* the command that follows one whose result is in, "return" where the
\* engine returns: RedisEngine.create_backup lines 356-382,
\* restore_backup lines 400-422 (the result of the stop is not looked at)
next_step(step, success) ==
    CASE step = "redis_bgsave" ->
            IF success THEN "redis_create_dir" ELSE "return"
      [] step = "redis_create_dir" ->
            IF success THEN "redis_create_copy" ELSE "return"
      [] step = "redis_restore_dir" ->
            IF success THEN "redis_stop" ELSE "return"
      [] step = "redis_stop" -> "redis_restore_copy"
      [] step = "redis_restore_copy" ->
            IF success THEN "redis_start" ELSE "return"
      [] OTHER -> "return"

\* await self.executor.execute(command): one positional argument.
\* SSHExecutor.execute(command) takes it; DockerExecutor.execute(container,
\* command) and KubernetesExecutor.execute(namespace, pod, command) raise
\* TypeError for the missing ones
Issue(step, running) ==
    IF executor.variant = "ssh"
    THEN /\ submitted' = <<command_text(step, running.credentials)>>
         /\ executor' = [executor EXCEPT !.pc = "idle", !.result = None]
         /\ engine' = [running EXCEPT !.pc = "await", !.step = step]
    ELSE /\ engine' = [running EXCEPT !.pc = "raised", !.step = step]
         /\ UNCHANGED <<submitted, executor>>

\* a task or an API handler calls an operation of the engine it built
EngineCall ==
    /\ engine.pc = "idle"
    /\ \E family \in DatabaseType, operation \in EngineOperations,
          kind \in BackupType, credentials \in Credentials :
        /\ operation # "create_backup" => kind = "full"
        /\ LET running == [engine EXCEPT !.family = family,
                                         !.operation = operation,
                                         !.kind = kind,
                                         !.credentials = credentials]
               step    == first_step(family, operation, kind)
           IN  IF step = "return"
               THEN /\ engine' = [running EXCEPT !.pc = "done"]
                    /\ UNCHANGED <<submitted, executor>>
               ELSE Issue(step, running)
    /\ UNCHANGED beside_remote

\* execute runs for the engine that awaits it
EngineExecute == engine.pc = "await" /\ Execute

\* the awaited execute has returned its ExecutionResult
EngineResume ==
    /\ engine.pc = "await"
    /\ executor.pc = "returned"
    /\ LET step == next_step(engine.step, The(executor.result).success) IN
       IF step = "return"
       THEN /\ engine' = [engine EXCEPT !.pc = "done"]
            /\ UNCHANGED <<submitted, executor>>
       ELSE Issue(step, engine)
    /\ UNCHANGED beside_remote

\* an engine over the executor ExecutorFactory.create_executor built for
\* the server's type
InitEngine ==
    /\ catalog = <<>>
    /\ blob = [k \in StorageKeys |-> None]
    /\ today = 0
    /\ task = [t \in Tasks |-> IdleTask]
    /\ PeriodicIdle
    /\ HealthIdle
    /\ BusIdle
    /\ submitted = <<>>
    /\ \E variant \in Variants : executor = [IdleExecutor EXCEPT !.variant = variant]
    /\ engine = IdleEngine

NextEngine ==
    \/ EngineCall
    \/ EngineExecute
    \/ SshConnect
    \/ RemoteCall
    \/ EngineResume

SpecEngine == InitEngine /\ [][NextEngine]_vars

\* ================================================================= claims
Creates == {t \in Tasks : task[t].kind = "create"}
Restores == {t \in Tasks : task[t].kind = "restore"}
Failure(t) == IF task[t].exc = None THEN "" ELSE The(task[t].exc).text
EndedRun(t) == task[t].pc \in {"done", "raised", "killed"}

\* C1: of the workers executing create_backup_task for one Backup row, exactly
\* one performs the pending -> in_progress transition and runs the pipeline;
\* every other one returns without changing the row.  Stated here: no two
\* executions get past the transition for the same row.
C1_SingleAdmission ==
    \A t1, t2 \in Creates :
        task[t1].bid = task[t2].bid => t1 = t2

\* C2: every change of a Backup's status is one of pending -> in_progress,
\* in_progress -> completed, in_progress -> failed, completed -> deleted; a
\* completed row never becomes in_progress or failed and a failed row never
\* changes again.
LegalTransitions ==
    { <<"pending", "in_progress">>, <<"in_progress", "completed">>,
      <<"in_progress", "failed">>, <<"completed", "deleted">> }

C2_LegalTransitions ==
    [][\A b \in BackupIds :
          catalog'[b].status # catalog[b].status
              => <<catalog[b].status, catalog'[b].status>> \in LegalTransitions]_vars

\* C3: every completed Backup has a storage_path, a size_bytes and a checksum.
C3_CompletedHasFields ==
    \A b \in BackupIds :
        catalog[b].status = "completed" =>
            /\ catalog[b].storage_path # None
            /\ catalog[b].size_bytes # None
            /\ catalog[b].checksum # None

\* C3 witness: a run has committed a Backup as completed
C3_Witness ==
    \E t \in Creates :
        /\ task[t].pc = "finish"
        /\ Row(t).status = "completed"

\* C4: for each completed Backup the stored checksum (after "sha256:") is
\* the SHA-256 of the bytes the blob store holds at its storage_path.
\* Stated for blobs nobody altered outside the program.
C4_ChecksumMatchesBlob ==
    \A b \in BackupIds :
        LET row == catalog[b] IN
        (row.status = "completed" /\ row.storage_path # None /\ row.checksum # None) =>
            LET held == blob[The(row.storage_path)] IN
            /\ held # None
            /\ ~The(held).flipped =>
                   calculate_checksum(The(held)) = ExpectedChecksum(The(row.checksum))

\* C5: restoring a completed Backup whose blob is unmodified passes the
\* checksum verification, whatever the compress and encrypt flags were.
\* Stated here: a restore whose downloaded bytes are unaltered and hash to
\* the row's stored checksum does not fail the verification.
C5_RestoreInvertsCreate ==
    \A t \in Restores :
        LET row == The(task[t].backup) IN
        ( /\ task[t].got # None
          /\ row.status = "completed"
          /\ row.checksum # None
          /\ ~The(task[t].got).flipped
          /\ calculate_checksum(The(task[t].got)) = ExpectedChecksum(The(row.checksum)) )
            => Failure(t) # "Checksum verification failed"

\* C6: when the bytes restore_backup_task checks do not hash to the stored
\* checksum, the restore fails and neither an executor is constructed nor
\* RestoreBackup invoked: an execution past the verification of a row with a
\* checksum holds bytes that hash to it, and one that failed the
\* verification never built an executor or called the engine.
C6_MismatchAborts ==
    \A t \in Restores :
        /\ ( /\ task[t].pc \in {"r_verify", "r_execute", "r_finish"}
             /\ The(task[t].backup).checksum # None
             /\ calculate_checksum(The(task[t].file))
                    # ExpectedChecksum(The(The(task[t].backup).checksum)) )
              => task[t].pc = "r_verify"
        /\ ( \/ task[t].pc = "r_verify"
             \/ Failure(t) = "Checksum verification failed" )
              => task[t].log \cap {"executor", "restore_backup"} = {}

\* C6 witness: a restore of a blob with one byte flipped has failed the
\* verification
C6_Witness ==
    \E t \in Restores :
        /\ task[t].pc = "except"
        /\ Failure(t) = "Checksum verification failed"
        /\ The(task[t].got).flipped

\* C7: when engine CreateBackup returns success = false the run performs no
\* compress, encrypt, checksum or upload step, and its except clause commits
\* the Backup as failed with an error_message holding the engine's stderr.
EngineFailed(t) ==
    /\ t \in Creates
    /\ task[t].result # None
    /\ ~The(task[t].result).success

C7_EngineFailureStops ==
    [][\A t \in Tasks :
          EngineFailed(t) =>
              /\ task[t].pc = "except"
              /\ task[t].log \cap {"compress", "encrypt", "checksum", "upload"} = {}
              /\ task'[t].pc = "raised" =>
                     /\ catalog'[The(task[t].bid)].status = "failed"
                     /\ catalog'[The(task[t].bid)].error_message # None
                     /\ The(catalog'[The(task[t].bid)].error_message).detail
                            = The(task[t].result).stderr]_vars

\* C7 witness: a run whose engine failed has committed the row as failed
C7_Witness ==
    \E t \in Creates :
        /\ task[t].pc = "raised"
        /\ Failure(t) = "Backup failed"
        /\ Row(t).status = "failed"
        /\ The(Row(t).error_message).detail \in EngineStderr

\* C8: a failed blob upload is re-attempted a bounded number of times and the
\* Backup is marked failed only after the attempts are exhausted.  Stated
\* here: a run that gives up on the upload has attempted it more than once.
C8_UploadRetried ==
    \A t \in Creates :
        Failure(t) = "Upload to storage failed" => task[t].uploads > 1

\* C9: every run of create_backup_task that started on a PENDING Backup
\* leaves the row in a terminal status (completed or failed), with
\* error_message set when failed; none ends with the row pending or
\* in_progress.
C9_RunEndsTerminal ==
    \A t \in Creates :
        EndedRun(t) =>
            /\ Row(t).status \in {"completed", "failed"}
            /\ Row(t).status = "failed" => Row(t).error_message # None

\* C10: a run in which CreateBackup, the requested compression and
\* encryption, the checksum and the upload all succeed commits completed,
\* for every database family, kind and flag combination.  Stated here: a
\* run ends in the except clause only because one of its steps failed.
StepFailures ==
    { "Invalid SSH parameters", "Backup failed", "Compression failed",
      "Encryption failed", "Upload to storage failed", "OSError" }

C10_FailsOnlyOnStepFailure ==
    \A t \in Creates :
        task[t].exc # None => Failure(t) \in StepFailures

\* C11: a create-backup run that exceeds the task time limit ends with its
\* Backup failed and an error_message indicating the timeout; the row is not
\* left in_progress.
C11_TimeLimitMarksFailed ==
    \A t \in Creates :
        task[t].pc = "killed" =>
            /\ Row(t).status = "failed"
            /\ Row(t).error_message # None

\* C12: at every instant the number of Backups in_progress is at most the
\* worker pool size.
InProgress == {b \in DOMAIN catalog : catalog[b].status = "in_progress"}

C12_InProgressWithinPool ==
    Cardinality(InProgress) <= MAX_CONCURRENT_BACKUPS

\* C13: no storage key is uploaded twice with different bytes, across all
\* executions, repeated and concurrent ones of one backup id included.
\* Stated here: an upload (a step that counts one more storage.upload call)
\* to a key that already holds bytes leaves the same content there.
Content(held) == [data |-> The(held).data, layers |-> The(held).layers]

C13_KeyWrittenOnce ==
    [][(\E t \in Tasks : task'[t].uploads = task[t].uploads + 1) =>
          \A k \in StorageKeys :
              blob[k] # None => Content(blob'[k]) = Content(blob[k])]_vars

\* the tick has returned; rows it added for schedule s's target
TickDone == ticker.pc = "done"

NewRows(s) ==
    { b \in DOMAIN catalog \ ticker.before :
        /\ catalog[b].server_id = ticker.seen[s].server_id
        /\ catalog[b].database_name = ticker.seen[s].database_name
        /\ catalog[b].status = "pending" }

DueAtTick(s) == ticker.seen[s].enabled /\ Due(ticker.seen[s], ticker.now)

\* C14: in one scheduler tick each enabled schedule with next_run <= now
\* produces exactly one new PENDING Backup, however many firings were missed;
\* a schedule that is disabled or not due produces none and keeps its last_run
\* and next_run.
C14_OneRowPerDueSchedule ==
    TickDone =>
        \A s \in DOMAIN ticker.seen :
            IF DueAtTick(s)
            THEN Cardinality(NewRows(s)) = 1
            ELSE /\ NewRows(s) = {}
                 /\ schedules[s].last_run = ticker.seen[s].last_run
                 /\ schedules[s].next_run = ticker.seen[s].next_run

\* C15: after every scheduler tick every enabled schedule, whatever its
\* last_run and next_run were, has next_run strictly greater than the tick's
\* now and equal to the first cron firing after now (the equality is stated
\* for the schedules the tick found due).
C15_NextRunAfterNow ==
    TickDone =>
        \A s \in DOMAIN schedules :
            schedules[s].enabled =>
                /\ schedules[s].next_run # None
                /\ The(schedules[s].next_run) > ticker.now
                /\ DueAtTick(s) =>
                       The(schedules[s].next_run)
                           = get_next(schedules[s].cron_expression, ticker.now)

\* C16: when processing one due schedule raises during a tick, the other due
\* schedules of that tick are still processed: each has its PENDING row and
\* an advanced next_run when the tick returns.
C16_ErrorKeepsTickGoing ==
    (TickDone /\ ticker.failed # None) =>
        \A s \in DOMAIN ticker.seen :
            (s # The(ticker.failed) /\ DueAtTick(s)) =>
                /\ Cardinality(NewRows(s)) = 1
                /\ schedules[s].next_run # None
                /\ The(schedules[s].next_run) > ticker.now

\* C17: for each due schedule the PENDING row and the update of last_run /
\* next_run take effect together: no step of the committed catalog adds a
\* row for a schedule's target without advancing the schedule, or advances
\* the schedule without adding the row.
C17_RowAndScheduleTogether ==
    [][\A s \in DOMAIN schedules :
          (\E b \in DOMAIN catalog' \ DOMAIN catalog :
              catalog'[b].server_id = schedules[s].server_id)
          <=> \/ schedules'[s].last_run # schedules[s].last_run
              \/ schedules'[s].next_run # schedules[s].next_run]_vars

\* C17 witness: a tick has committed a schedule's row together with its
\* advanced next_run, and a later commit of the same tick has failed
C17_Witness ==
    /\ TickDone
    /\ ticker.failed # None
    /\ \E b \in DOMAIN catalog \ ticker.before :
        /\ catalog[b].status = "pending"
        /\ schedules[catalog[b].server_id].last_run = Some(ticker.now)
        /\ The(schedules[catalog[b].server_id].next_run) > ticker.now

\* the reaper has committed its soft deletes for a schedule; that schedule's
\* policy and the completed backups it listed, newest first
ReaperRan == reaper.marked
ReaperPolicy == The(schedules[The(reaper.schedule)].retention_policy)
Listed == Range(reaper.listed)
Created(b) == catalog[b].created_at

\* keep_daily = k: the newest backup of each of the k most recent dates
ListedDates == {date(Created(b)) : b \in Listed}
RecentDates(k) ==
    {d \in ListedDates : Cardinality({e \in ListedDates : e > d}) < k}
NewestOfDates(k) ==
    { b \in Listed :
        /\ date(Created(b)) \in RecentDates(k)
        /\ \A c \in Listed :
               date(Created(c)) = date(Created(b)) => Created(c) <= Created(b) }

\* keep_weekly / keep_monthly = k >= 1: every stored instant of the model
\* lies within one ISO week and one month (days 0 to MaxStoredDay of the
\* epoch), so the newest backup of the most recent bucket is the newest
\* backup listed
NewestOfBuckets == IF reaper.listed = <<>> THEN {} ELSE {reaper.listed[1]}

\* the union of what the active rules keep
KeptByRules ==
    (IF Active(ReaperPolicy.keep_last_n)
     THEN KeepLastN(reaper.listed, The(ReaperPolicy.keep_last_n)) ELSE {})
    \cup (IF Active(ReaperPolicy.keep_days)
          THEN KeepDays(reaper.listed, The(ReaperPolicy.keep_days), now) ELSE {})
    \cup (IF Active(ReaperPolicy.keep_daily)
          THEN NewestOfDates(The(ReaperPolicy.keep_daily)) ELSE {})
    \cup (IF Active(ReaperPolicy.keep_weekly) THEN NewestOfBuckets ELSE {})
    \cup (IF Active(ReaperPolicy.keep_monthly) THEN NewestOfBuckets ELSE {})

\* C18: after a reaper run for a schedule with a retention policy, a
\* completed backup of its server and database is soft-deleted (status
\* deleted, deleted_at set) if and only if no active rule among keep_last_n,
\* keep_days, keep_daily, keep_weekly, keep_monthly keeps it; backups that
\* are not completed are never altered.
C18_DeletedIffUnkept ==
    ReaperRan =>
        /\ \A b \in Listed :
              IF b \in KeptByRules
              THEN catalog[b].status = "completed" /\ catalog[b].deleted_at = None
              ELSE catalog[b].status = "deleted" /\ catalog[b].deleted_at # None
        /\ \A b \in DOMAIN catalog :
              catalog[b].status = "failed" => catalog[b].deleted_at = None

\* only keep_daily is active in the policy
OnlyDaily ==
    /\ Active(ReaperPolicy.keep_daily)
    /\ ~Active(ReaperPolicy.keep_last_n)
    /\ ~Active(ReaperPolicy.keep_days)

\* C19: with keep_daily = K the rule keeps exactly the newest completed
\* backup of each of the K most recent distinct dates that have backups (at
\* most K backups), no backup of an older date and no older backup of a kept
\* date.  Stated here: the keep-set the reaper computed holds those backups
\* whenever keep_daily is active, and holds nothing else, the others being
\* soft-deleted, when no other rule the reaper evaluates is active.
C19_DailyKeepsNewestOfRecentDates ==
    (ReaperRan /\ Active(ReaperPolicy.keep_daily)) =>
        LET k == The(ReaperPolicy.keep_daily) IN
        /\ NewestOfDates(k) \subseteq reaper.keep
        /\ Cardinality(NewestOfDates(k)) <= k
        /\ OnlyDaily =>
              /\ reaper.keep = NewestOfDates(k)
              /\ \A b \in Listed \ reaper.keep : catalog[b].status = "deleted"

\* C19 witness: keep_daily = 1 alone has kept the newest backup of the latest
\* date and dropped an older backup of that date and one of an older date
C19_Witness ==
    /\ ReaperRan
    /\ OnlyDaily
    /\ The(ReaperPolicy.keep_daily) = 1
    /\ Cardinality(reaper.keep) = 1
    /\ \E b \in reaper.keep, c, d \in Listed \ reaper.keep :
        /\ date(Created(c)) = date(Created(b))
        /\ date(Created(d)) < date(Created(b))
        /\ catalog[b].status = "completed"
        /\ catalog[c].status = "deleted"
        /\ catalog[d].status = "deleted"

\* C20: with keep_weekly = K (or keep_monthly = K) active, the newest
\* completed backup of each of the K most recent ISO-week (year-month)
\* buckets is retained by the reaper, even when no other rule keeps it.
C20_WeeklyMonthlyRetained ==
    (ReaperRan /\ (Active(ReaperPolicy.keep_weekly)
                     \/ Active(ReaperPolicy.keep_monthly))) =>
        \A b \in NewestOfBuckets : catalog[b].status = "completed"

\* ------------------------------------------------------------ health prober

\* C21: the prober sends no alert for a server in a tick that leaves the
\* server's health status as it was before the tick: whenever an alert is
\* added for a server, the status the probe assigned differs from the status
\* the tick loaded
C21_NoAlertWithoutChange ==
    [][ \A s \in ServerIds :
          alerts'[s] # alerts[s] =>
              /\ s \in DOMAIN prober.status
              /\ s \in DOMAIN prober'.status
              /\ prober'.status[s] # prober.status[s] ]_vars

\* a server that was unhealthy has failed its probe again, without an alert
C21_Witness ==
    /\ prober.pc = "commit"
    /\ LET s == Head(prober.todo) IN
        /\ s \notin prober.threw
        /\ servers[s].health_status = "unhealthy"
        /\ prober.status[s] = "unhealthy"
        /\ alerts[s] = <<>>

\* the probe of server s in this step took its status from one value to another
StatusChange(s, from, to) ==
    /\ prober.pc = "loop"
    /\ s \in DOMAIN prober.status
    /\ s \in DOMAIN prober'.status
    /\ prober.status[s] = from
    /\ prober'.status[s] = to

\* C22: a probe that takes a server from healthy to unhealthy sends exactly
\* one UNHEALTHY alert, a probe that takes it from unhealthy to healthy
\* exactly one HEALTHY (recovered) alert; so healthy, unhealthy, healthy
\* over three ticks sends two alerts
C22_OneAlertPerChange ==
    [][ \A s \in ServerIds :
          /\ StatusChange(s, "healthy", "unhealthy") =>
                 alerts'[s] = Append(alerts[s], "UNHEALTHY")
          /\ StatusChange(s, "unhealthy", "healthy") =>
                 alerts'[s] = Append(alerts[s], "HEALTHY") ]_vars

\* third tick: a server stored as unhealthy has answered its probe, and the
\* two alerts of its way down and up again are all that were sent
C22_Witness ==
    /\ prober.pc = "commit"
    /\ prober.ticks = 3
    /\ LET s == Head(prober.todo) IN
        /\ s \notin prober.threw
        /\ servers[s].health_status = "unhealthy"
        /\ prober.status[s] = "healthy"
        /\ alerts[s] = <<"UNHEALTHY", "HEALTHY">>

\* C23: a server whose probe threw has status unknown, and when the tick
\* ends without a failed commit every server the tick selected has been
\* probed and its status committed
C23_ProbeExceptionContained ==
    /\ \A s \in prober.threw : prober.status[s] = "unknown"
    /\ (prober.pc = "done" /\ ~prober.failed) =>
           \A s \in DOMAIN prober.status :
               /\ s \in Range(prober.probed)
               /\ servers[s].health_status = prober.status[s]

\* the first server's probe threw, the one after it was probed and committed
\* as healthy
C23_Witness ==
    /\ prober.pc = "done"
    /\ ~prober.failed
    /\ Len(prober.probed) = 2
    /\ prober.probed[1] \in prober.threw
    /\ servers[prober.probed[1]].health_status = "unknown"
    /\ prober.probed[2] \notin prober.threw
    /\ servers[prober.probed[2]].health_status = "healthy"

\* ------------------------------------------------------------ fan-out bus

\* the broadcast returns in this step
Returns == cast.pc = "send" /\ cast'.pc = "done"

\* C24: when a broadcast on a channel returns and nobody joined or left the
\* channel meanwhile, every subscriber whose send did not raise has received
\* the event, and the channel's set has lost exactly the subscribers whose
\* send raised
C24_RaisingSubscribersSwept ==
    [][ ( /\ Returns
          /\ cast.kind = "channel"
          /\ active_connections[cast.key] = cast.start ) =>
            /\ cast.start \ cast'.disconnected \subseteq cast'.delivered
            /\ active_connections'[cast.key] = cast.start \ cast'.disconnected ]_vars

\* a broadcast to two subscribers has returned: one send raised, the other
\* subscriber has the event and is the one left in the channel's set
C24_Witness ==
    /\ cast.pc = "done"
    /\ cast.kind = "channel"
    /\ Cardinality(cast.start) = 2
    /\ Cardinality(cast.disconnected) = 1
    /\ cast.delivered = cast.start \ cast.disconnected
    /\ active_connections[cast.key] = cast.delivered

\* the connections an endpoint is serving
Live == {s \in Sockets : sockets[s].endpoint \in Endpoints}

\* C25: the union of the channels' sets is the set of live connections, and
\* every user's set is within that union
C25_MembershipInvariant ==
    LET union == UNION {active_connections[c] : c \in Channels} IN
    /\ union = Live
    /\ \A u \in DOMAIN user_connections : user_connections[u] \subseteq union

\* C26: a broadcast in flight returns, whether or not a subscriber reads
C26_BroadcastTerminates ==
    (cast.pc = "send") ~> (cast.pc \in {"done", "raised"})

\* C27: a broadcast does not fail, and when it returns it has visited every
\* subscriber the channel had when it began, whatever joined or left during
\* its sends
C27_IteratesSnapshot ==
    /\ cast.pc # "raised"
    /\ (cast.pc = "done" /\ cast.kind = "channel") => cast.start \subseteq cast.visited

\* ------------------------------------------------------- remote executors

\* the text of the submitted command
Text == join(submitted)

\* the head token of a command as the variant's execute is given it
HeadToken(variant, command) ==
    IF variant = "kubernetes" THEN command[1] ELSE first_token(command)

\* the variant's allow-list
AllowList(variant) ==
    IF variant = "ssh" THEN ssh_allowed_prefixes ELSE container_allowed_prefixes

\* C28: a command handed to the remote target has a head token that is one
\* of the variant's allow-listed tokens, not merely one beginning with it
C28_HeadTokenAllowListed ==
    \A i \in 1..Len(executor.calls) :
        HeadToken(executor.variant, executor.calls[i]) \in AllowList(executor.variant)

\* the command passed the variant's validation
Accepted == executor.pc \in {"connect", "call"} \/ executor.calls # <<>>

\* C29: an accepted command that contains a pipe contains exactly one, and
\* the head token after it is gzip, gunzip, zstd or lz4
C29_OnlyOnePipeToCompressor ==
    (Accepted /\ contains(Text, <<"|">>)) =>
        LET parts == split(Text, "|") IN
        /\ Len(parts) = 2
        /\ has_token(parts[2])
        /\ first_token(parts[2]) \in safe_pipes

\* the command contains one of the dangerous patterns
Dangerous == \E i \in 1..Len(dangerous_patterns) : contains(Text, dangerous_patterns[i])

\* C30: execute of a command containing a dangerous pattern returns
\* success = false with a stderr that names a dangerous pattern, and has
\* neither opened a connection nor called the remote target
C30_DangerousPatternReported ==
    (Dangerous /\ executor.pc # "idle") =>
        /\ executor.pc = "returned"
        /\ executor.client = "none"
        /\ executor.calls = <<>>
        /\ LET result == The(executor.result) IN
            /\ ~result.success
            /\ Len(result.stderr) = 3
            /\ result.stderr[2] \in {"Command contains dangerous pattern",
                                     "Command argument contains dangerous pattern"}

\* ------------------------------------------------ scheduler, second part

\* the rows the tick has inserted: committed ones and the one of its open
\* transaction
InsertedRows ==
    {catalog[b] : b \in DOMAIN catalog \ ticker.before}
        \cup (IF ticker.txn = None THEN {} ELSE {The(ticker.txn).row})

\* C31: every Backup row the scheduler tick inserts has a db_type that is a
\* database family, and the job enqueued for the row names that family
C31_ScheduledRowHasFamily ==
    /\ \A row \in InsertedRows : row.db_type \in DatabaseType
    /\ \A m \in queue :
         /\ ticker.txn # None /\ The(ticker.txn).id = m.backup_id =>
                m.db_type = The(ticker.txn).row.db_type
         /\ m.backup_id \in DOMAIN catalog =>
                m.db_type = catalog[m.backup_id].db_type

\* C36: every job handed to the broker is for a Backup row that is committed
\* in the catalog, so no worker can take a job whose row it cannot see, and
\* a tick whose commit failed has left no job behind
C36_EnqueuedRowsCommitted ==
    \A m \in queue : m.backup_id \in DOMAIN catalog

\* ------------------------------------------------ health prober, second part

\* C40: a server's alerts alternate between UNHEALTHY and HEALTHY (recovered),
\* and a server whose last alert was UNHEALTHY and whose probe has now
\* answered has been sent the recovered alert, whatever happened in the
\* ticks between
C40_AlertsAlternate ==
    \A s \in ServerIds :
        /\ \A i \in 1..(Len(alerts[s]) - 1) : alerts[s][i] # alerts[s][i + 1]
        /\ ( /\ prober.pc = "commit"
             /\ Head(prober.todo) = s
             /\ prober.status[s] = "healthy"
             /\ alerts[s] # <<>> ) =>
                alerts[s][Len(alerts[s])] = "HEALTHY"

\* ------------------------------------------------ reaper, second part
CompletedBackups == {b \in DOMAIN catalog : catalog[b].status = "completed"}

\* C39: once a run of the reaper has gone through every schedule, a further
\* run, with no new backup and the clock unchanged, soft-deletes nothing,
\* also when the schedules share their target under different policies
C39_SecondRunDeletesNothing ==
    [][reaper.ran => CompletedBackups' = CompletedBackups]_vars

\* a second run has gone through two schedules of one target whose policies
\* differ, after the first run soft-deleted a backup
C39_Witness ==
    /\ reaper.ran
    /\ reaper.pc = "list"
    /\ reaper.todo = <<>>
    /\ reaper.marked
    /\ CompletedBackups # DOMAIN catalog
    /\ \E a, b \in DOMAIN schedules :
        /\ a # b
        /\ schedules[a].server_id = schedules[b].server_id
        /\ schedules[a].database_name = schedules[b].database_name
        /\ schedules[a].retention_policy # schedules[b].retention_policy

\* ------------------------------------------------ remote executors, second part
\* C32: the shell executor holds no session before its first execute, and
\* it hands a command to the remote side only over a live session: a
\* session that was closed, was lost or never came up is established anew
\* first, never used as it is
C32_RunsOnLiveSession ==
    /\ executor.executes = 0 => executor.client = "none"
    /\ (executor.variant = "ssh" /\ executor.pc = "call") =>
            executor.client = "connected"

\* ------------------------------------------------ backup engines
\* the commands that reached the remote side
Ran(step) ==
    \E i \in 1..Len(executor.calls) :
        executor.calls[i] = command_text(step, engine.credentials)

RedisRestoreDone ==
    /\ engine.pc = "done"
    /\ engine.family = "redis"
    /\ engine.operation = "restore_backup"

\* C33: a Redis restore_backup that has stopped the server has, by the time
\* it returns, run the restart as well, whether the copy of the RDB file
\* succeeded or failed, and the copy ran between the two
C33_StopThenRestart ==
    (RedisRestoreDone /\ Ran("redis_stop")) =>
        /\ Ran("redis_start")
        /\ \A i, j \in 1..Len(executor.calls) :
            /\ ( /\ executor.calls[i] = command_text("redis_stop", engine.credentials)
                 /\ executor.calls[j] \in
                        { command_text("redis_restore_copy", engine.credentials),
                          command_text("redis_start", engine.credentials) } )
                   => i < j
            /\ ( /\ executor.calls[i] = command_text("redis_restore_copy",
                                                     engine.credentials)
                 /\ executor.calls[j] = command_text("redis_start",
                                                     engine.credentials) )
                   => i < j

\* C37: whatever command an engine hands to its executor, the executor takes
\* the call and its validation accepts the command
C37_EngineCommandsAccepted ==
    /\ engine.pc # "raised"
    /\ engine.pc = "await" =>
           validate_command(executor.variant,
                            Command(executor.variant, submitted)).raises = "nothing"

\* ------------------------------------------------ restore, second part
\* the row a restore loaded is a child: an incremental backup
ChildRestore(t) ==
    /\ task[t].kind = "restore"
    /\ task[t].backup # None
    /\ The(task[t].backup).backup_type = "incremental"

\* the parent of the row is in the catalog, completed, of the same server
\* and database
ParentUsable(row) ==
    /\ row.parent_backup_id # None
    /\ The(row.parent_backup_id) \in DOMAIN catalog
    /\ LET parent == catalog[The(row.parent_backup_id)] IN
        /\ parent.status = "completed"
        /\ parent.server_id = row.server_id
        /\ parent.database_name = row.database_name

\* C35: restore_backup_task goes on to the download and the engine for an
\* incremental Backup only when the row's parent is completed and of the
\* same server and database
C35_ChildNeedsParent ==
    \A t \in Tasks :
        (ChildRestore(t) /\ task[t].pc \notin {"r_download", "except"}) =>
            ParentUsable(The(task[t].backup))

Notified(tk) == tk.log \cap {"backup_success", "backup_failure"}

\* C34: a run of create_backup_task, when it ends, has sent exactly one
\* backup notification: backup_success with the row committed completed,
\* backup_failure with the row committed failed
C34_OneNotificationPerRun ==
    [][\A t \in Tasks :
         (~EndedRun(t) /\ EndedRun(t)' /\ task'[t].kind = "create") =>
            LET status == catalog'[The(task'[t].bid)].status IN
            \/ Notified(task'[t]) = {"backup_success"} /\ status = "completed"
            \/ Notified(task'[t]) = {"backup_failure"} /\ status = "failed"]_vars

====
